---- MODULE Spec2Model ----
(***************************************************************************)
(* Apex workout tracker: the active workout session state machine of the   *)
(* zustand store (useAppStore), its single-row persistence in SQLite       *)
(* (active_workout_session), cold-start recovery (loadPersistedState) and  *)
(* the rest-timer notification handling of the workouts screen.            *)
(*                                                                         *)
(* JavaScript values that may be null or undefined, and every value of a   *)
(* parsed JSON payload, are tagged records (JNull, JNum(n), ...), so that   *)
(* typeof and the === null tests of the code can be evaluated.  Numbers    *)
(* are integers: weights are in whole units and Math.floor of a number is  *)
(* the number itself.                                                      *)
(***************************************************************************)
EXTENDS Integers, Sequences, FiniteSets, TLC

(***************************************************************************)
(* Bounds of the model.                                                    *)
(***************************************************************************)
MaxNow == 1
MaxCalls == 2
MaxInFlight == 1
MaxFailures == 1

(***************************************************************************)
(* Program constants.                                                      *)
(***************************************************************************)
DEFAULT_REST_SECONDS == 90

(***************************************************************************)
(* JavaScript / JSON values.                                               *)
(***************************************************************************)
JMissing == [k |-> "undefined"]
JNull == [k |-> "null"]
JBool(b) == [k |-> "bool", b |-> b]
JNum(n) == [k |-> "num", n |-> n]
JStr(s) == [k |-> "str", s |-> s]
JArr(items) == [k |-> "arr", items |-> items]
JEmptyObj == [k |-> "obj"]

\* JSON text that JSON.parse rejects.
BadText == [k |-> "text"]

TypeOf(j) ==
  CASE j.k = "undefined" -> "undefined"
    [] j.k = "bool" -> "boolean"
    [] j.k = "num" -> "number"
    [] j.k = "str" -> "string"
    [] OTHER -> "object"

\* !value
Falsy(j) ==
  \/ j.k \in {"undefined", "null"}
  \/ j.k = "bool" /\ ~j.b
  \/ j.k = "num" /\ j.n = 0
  \/ j.k = "str" /\ j.s = ""

\* value.f : a key the object does not have reads as undefined.
Get(j, f) == IF j.k = "obj" /\ f \in DOMAIN j THEN j[f] ELSE JMissing

\* The object without the key f.
Without(j, f) == [x \in DOMAIN j \ {f} |-> j[x]]

\* The object with key f set to v; v = JMissing removes the key.
With(j, f, v) ==
  IF v = JMissing THEN Without(j, f)
  ELSE [x \in DOMAIN j \cup {f} |-> IF x = f THEN v ELSE j[x]]

(***************************************************************************)
(* The active session in memory: null is NoSession.                        *)
(***************************************************************************)
NoSession == [none |-> TRUE]

\* JSON.stringify of one ActiveWorkoutSet: an undefined actualWeightKg is
\* omitted from the text.
SetToJSON(s) ==
  With([k |-> "obj",
        id |-> JStr(s.id),
        workoutExerciseId |-> JStr(s.workoutExerciseId),
        exerciseName |-> JStr(s.exerciseName),
        setNumber |-> JNum(s.setNumber),
        targetReps |-> JNum(s.targetReps),
        targetWeightKg |-> JNum(s.targetWeightKg),
        restSeconds |-> JNum(s.restSeconds),
        actualReps |-> JNum(s.actualReps)],
       "actualWeightKg", s.actualWeightKg)

\* JSON.stringify(session), the payload written by saveActiveWorkoutSession.
SessionToJSON(session) ==
  [k |-> "obj",
   workoutId |-> JStr(session.workoutId),
   workoutName |-> JStr(session.workoutName),
   startedAt |-> JNum(session.startedAt),
   bodyweightKg |-> session.bodyweightKg,
   totalPausedMs |-> JNum(session.totalPausedMs),
   pauseStartedAt |-> session.pauseStartedAt,
   isPaused |-> JBool(session.isPaused),
   restoredFromAppClose |-> JBool(session.restoredFromAppClose),
   sets |-> JArr([i \in 1..Len(session.sets) |-> SetToJSON(session.sets[i])])]

NormalizedRestSeconds(set) ==
  LET r == Get(set, "restSeconds")
  IN IF TypeOf(r) = "number" /\ r.n > 0 THEN r.n ELSE DEFAULT_REST_SECONDS

NormalizedActualWeightKg(set) ==
  LET a == Get(set, "actualWeightKg")
  IN IF TypeOf(a) = "number" THEN a ELSE Get(set, "targetWeightKg")

\* The predicate of session.sets.every(...).
SetIsValid(set) ==
  /\ ~Falsy(set)
  /\ TypeOf(set) = "object"
  /\ TypeOf(Get(set, "id")) = "string"
  /\ TypeOf(Get(set, "workoutExerciseId")) = "string"
  /\ TypeOf(Get(set, "exerciseName")) = "string"
  /\ TypeOf(Get(set, "setNumber")) = "number"
  /\ TypeOf(Get(set, "targetReps")) = "number"
  /\ TypeOf(Get(set, "targetWeightKg")) = "number"
  /\ TypeOf(NormalizedActualWeightKg(set)) = "number"
  /\ TypeOf(Get(set, "actualReps")) = "number"

\* The set object built by the final sets.map(...) of the normalizer.
NormalizedSet(set) ==
  [id |-> Get(set, "id").s,
   workoutExerciseId |-> Get(set, "workoutExerciseId").s,
   exerciseName |-> Get(set, "exerciseName").s,
   setNumber |-> Get(set, "setNumber").n,
   targetReps |-> Get(set, "targetReps").n,
   targetWeightKg |-> Get(set, "targetWeightKg").n,
   restSeconds |-> NormalizedRestSeconds(set),
   actualReps |-> Get(set, "actualReps").n,
   actualWeightKg |-> NormalizedActualWeightKg(set)]

NormalizedBodyweight(value) ==
  LET b == Get(value, "bodyweightKg")
  IN IF b.k \in {"undefined", "null"} THEN JNull ELSE b

SessionFieldsValid(value) ==
  /\ TypeOf(Get(value, "workoutId")) = "string"
  /\ TypeOf(Get(value, "workoutName")) = "string"
  /\ TypeOf(Get(value, "startedAt")) = "number"
  /\ (TypeOf(NormalizedBodyweight(value)) = "number" \/ NormalizedBodyweight(value) = JNull)
  /\ TypeOf(Get(value, "totalPausedMs")) = "number"
  /\ (Get(value, "pauseStartedAt") = JNull \/ TypeOf(Get(value, "pauseStartedAt")) = "number")
  /\ TypeOf(Get(value, "isPaused")) = "boolean"
  /\ TypeOf(Get(value, "restoredFromAppClose")) = "boolean"
  /\ Get(value, "sets").k = "arr"

normalizeActiveWorkoutSession(value) ==
  IF Falsy(value) \/ TypeOf(value) # "object" THEN NoSession
  ELSE IF ~SessionFieldsValid(value) THEN NoSession
  ELSE LET items == Get(value, "sets").items
       IN IF \E i \in 1..Len(items) : ~SetIsValid(items[i]) THEN NoSession
          ELSE [workoutId |-> Get(value, "workoutId").s,
                workoutName |-> Get(value, "workoutName").s,
                startedAt |-> Get(value, "startedAt").n,
                bodyweightKg |-> NormalizedBodyweight(value),
                totalPausedMs |-> Get(value, "totalPausedMs").n,
                pauseStartedAt |-> Get(value, "pauseStartedAt"),
                isPaused |-> Get(value, "isPaused").b,
                restoredFromAppClose |-> Get(value, "restoredFromAppClose").b,
                sets |-> [i \in 1..Len(items) |-> NormalizedSet(items[i])]]

\* The absent row of active_workout_session.
NoRow == [k |-> "norow"]

\* JSON.parse(row.payload): throws on text that is not JSON.
JSONParse(payload) ==
  IF payload = BadText THEN [threw |-> TRUE, value |-> JMissing]
  ELSE [threw |-> FALSE, value |-> payload]

\* loadActiveWorkoutSession without the try/catch around JSON.parse.
loadActiveWorkoutSessionWithoutCatch(row) ==
  IF row = NoRow THEN [threw |-> FALSE, value |-> NoSession]
  ELSE IF JSONParse(row).threw THEN [threw |-> TRUE, value |-> NoSession]
  ELSE [threw |-> FALSE, value |-> normalizeActiveWorkoutSession(JSONParse(row).value)]

\* loadActiveWorkoutSession on the row read from the table: no row gives
\* null; a throw of JSON.parse is caught and gives null.
loadActiveWorkoutSession(row) ==
  IF row = NoRow THEN [threw |-> FALSE, value |-> NoSession]
  ELSE IF JSONParse(row).threw THEN [threw |-> FALSE, value |-> NoSession]
  ELSE [threw |-> FALSE, value |-> normalizeActiveWorkoutSession(JSONParse(row).value)]

\* No call of loadActiveWorkoutSession has returned yet.
NotLoaded == [k |-> "notloaded"]

\* A function checked on its own has not been handed its argument, has not
\* returned.
NoArgs == [k |-> "noargs"]
NotComputed == [k |-> "notcomputed"]

\* The app has not been killed since the model started.
NotKilled == [kind |-> "none"]

\* The value a function checked on its own returned.
Returned(value) == [k |-> "returned", value |-> value]

(***************************************************************************)
(* State.                                                                  *)
(***************************************************************************)
VARIABLES
  now,                 \* Date.now()
  activeSession,       \* useAppStore: activeSession
  workouts,            \* useAppStore: workouts (what listWorkouts returned)
  hydrated,            \* useAppStore: hydrated
  bootstrapping,       \* useAppStore: bootstrapping
  mutating,            \* useAppStore: mutating
  error,               \* useAppStore: error
  stored,              \* table active_workout_session: the payload of row 1
  dbWorkouts,          \* table workouts: id -> weeks_completed
  dbSessions,          \* tables workout_sessions / workout_session_sets
  dbExercises,         \* table workout_exercises: workout id -> rows by sort_order
  tasks,               \* the async calls in flight, each at its await
  result,              \* how the last settled store call ended
  calls, failures,     \* calls made and awaits rejected so far
  restScheduleToken,   \* restScheduleTokenRef.current
  restNotificationId,  \* screen state restNotificationId, 0 for null
  activeRestTimer,     \* screen state activeRestTimer
  sessionActionError,  \* screen state sessionActionError
  live,                \* notifications scheduled with the OS and not cancelled
  handles,             \* notification handles handed out so far
  loadPayload,         \* a payload handed to loadActiveWorkoutSession
  loadResult,          \* what it returned
  targetArgs,          \* a workout and exercise handed to getTargetWeightKg
  targetWeight,        \* what it returned
  buildWorkout,        \* a workout handed to buildSessionSets
  builtSets,           \* what it returned
  groupInput,          \* a list of sets handed to groupActiveSetsByExercise
  groupResult,         \* what it returned
  killed               \* what the last kill of the app interrupted

storeVars == <<activeSession, workouts, hydrated, bootstrapping, mutating, error>>
dbVars == <<stored, dbWorkouts, dbSessions, dbExercises>>
restVars == <<restScheduleToken, restNotificationId, activeRestTimer, sessionActionError,
              live, handles>>
loadVars == <<loadPayload, loadResult, targetArgs, targetWeight, buildWorkout, builtSets,
              groupInput, groupResult, killed>>
countVars == <<calls, failures>>
vars == <<now, storeVars, dbVars, tasks, result, countVars, restVars, loadVars>>

(***************************************************************************)
(* Workout templates.  The exercises of a template are fixed; the table    *)
(* workouts maps the ids of the existing templates to weeks_completed.     *)
(***************************************************************************)
Max(a, b) == IF a >= b THEN a ELSE b

WorkoutIds == {"wA", "wB"}

WorkoutName(w) == IF w = "wA" THEN "Pull" ELSE "Legs"

\* wA holds an assisted exercise (negative start weight).
Exercises(w) ==
  IF w = "wA"
  THEN <<[id |-> "eA", name |-> "Pull-up", sets |-> 2, reps |-> 2, restSeconds |-> 60,
          startWeightKg |-> -5, overloadIncrementKg |-> 2]>>
  ELSE <<[id |-> "eB", name |-> "Squat", sets |-> 1, reps |-> 1, restSeconds |-> 120,
          startWeightKg |-> 10, overloadIncrementKg |-> 5]>>

EmptyWorkouts == [weeks |-> << >>, sessions |-> << >>, exercises |-> << >>]

\* listWorkouts(): the templates with their history sessions.
\* listWorkouts: the rest_seconds of an exercise row as it is mapped.
MappedRestSeconds(restSeconds) ==
  IF restSeconds > 0 THEN restSeconds ELSE DEFAULT_REST_SECONDS

listWorkouts(templates, sessions, exercises) ==
  [weeks |-> templates,
   sessions |-> sessions,
   exercises |->
     [w \in DOMAIN exercises |->
        [i \in 1..Len(exercises[w]) |->
           [exercises[w][i] EXCEPT !.restSeconds = MappedRestSeconds(@)]]]]

\* workouts.find((item) => item.id === workoutId), for an id the list holds.
FindWorkout(wk, w) ==
  [id |-> w, name |-> WorkoutName(w), weeksCompleted |-> wk.weeks[w],
   exercises |-> wk.exercises[w]]

\* A target weight that is never below zero.
getTargetWeightKgClamped(weeksCompleted, exercise) ==
  Max(0, exercise.startWeightKg + exercise.overloadIncrementKg * weeksCompleted)

getTargetWeightKg(weeksCompleted, exercise) ==
  exercise.startWeightKg + exercise.overloadIncrementKg * weeksCompleted

\* createId('active_set'): unique within the session.
ActiveSetId(exercise, index) == exercise.id \o "-" \o ToString(index)

ExerciseSets(weeksCompleted, exercise) ==
  [index \in 1..exercise.sets |->
     [id |-> ActiveSetId(exercise, index),
      workoutExerciseId |-> exercise.id,
      exerciseName |-> exercise.name,
      setNumber |-> index,
      targetReps |-> exercise.reps,
      targetWeightKg |-> getTargetWeightKg(weeksCompleted, exercise),
      restSeconds |-> exercise.restSeconds,
      actualReps |-> 0,
      actualWeightKg |-> JMissing]]

RECURSIVE FlatMapSets(_, _)
FlatMapSets(weeksCompleted, exercises) ==
  IF exercises = << >> THEN << >>
  ELSE ExerciseSets(weeksCompleted, Head(exercises))
         \o FlatMapSets(weeksCompleted, Tail(exercises))

buildSessionSets(workout) == FlatMapSets(workout.weeksCompleted, workout.exercises)

\* The paused interval taken as now - pauseStartedAt, without the floor.
elapsedPauseMsUnfloored(session, t) ==
  IF ~session.isPaused \/ session.pauseStartedAt = JNull THEN 0
  ELSE t - session.pauseStartedAt.n

elapsedPauseMs(session, t) ==
  IF ~session.isPaused \/ session.pauseStartedAt = JNull THEN 0
  ELSE Max(0, t - session.pauseStartedAt.n)

\* pauseSession that forgets to stamp the pause.
pauseSessionWithoutTimestamp(session, t) ==
  IF session.isPaused THEN session ELSE [session EXCEPT !.isPaused = TRUE]

pauseSession(session, t) ==
  IF session.isPaused THEN session
  ELSE [session EXCEPT !.isPaused = TRUE, !.pauseStartedAt = JNum(t)]

\* A resume that leaves the restored mark on the session.
resumeSessionKeepingRestoredMark(session, t) ==
  IF ~session.isPaused THEN session
  ELSE [session EXCEPT !.totalPausedMs = session.totalPausedMs + elapsedPauseMs(session, t),
                       !.isPaused = FALSE,
                       !.pauseStartedAt = JNull]

resumeSession(session, t) ==
  IF ~session.isPaused THEN [session EXCEPT !.restoredFromAppClose = FALSE]
  ELSE [session EXCEPT !.totalPausedMs = session.totalPausedMs + elapsedPauseMs(session, t),
                       !.isPaused = FALSE,
                       !.pauseStartedAt = JNull,
                       !.restoredFromAppClose = FALSE]

\* The session object built by startWorkoutSession.
NewSession(workout, t) ==
  [workoutId |-> workout.id,
   workoutName |-> workout.name,
   startedAt |-> t,
   bodyweightKg |-> JNull,
   totalPausedMs |-> 0,
   pauseStartedAt |-> JNull,
   isPaused |-> FALSE,
   restoredFromAppClose |-> FALSE,
   sets |-> buildSessionSets(workout)]

\* startWorkoutSession without the conflict test.
StartConflictNeverRejects(existingSession, w) == FALSE

\* startWorkoutSession: the test that rejects a start while another workout's
\* session is active.
StartConflict(existingSession, w) ==
  existingSession # NoSession /\ existingSession.workoutId # w

\* A start that builds a new session over the one of the same workout.
StartNeverRepeat(existingSession, w) == FALSE

\* startWorkoutSession: the session of this workout is already active.
StartIsRepeat(existingSession, w) ==
  existingSession # NoSession /\ existingSession.workoutId = w

\* The bodyweight input stored as given.
BodyweightInputUnclamped(bodyweightKg) == bodyweightKg

\* setActiveWorkoutBodyweight: the normalised input.
NormalizedBodyweightInput(bodyweightKg) ==
  IF bodyweightKg = JNull THEN JNull ELSE JNum(Max(0, bodyweightKg.n))

HasSet(session, setId) == \E i \in 1..Len(session.sets) : session.sets[i].id = setId

\* A tap that only ever counts down.
TappedSetsAlwaysDecrement(sets, setId) ==
  [i \in 1..Len(sets) |->
     IF sets[i].id # setId THEN sets[i]
     ELSE [sets[i] EXCEPT !.actualReps = sets[i].actualReps - 1]]

\* decrementOrCompleteSessionSet: the sets.map(...) of the tap.
TappedSets(sets, setId) ==
  [i \in 1..Len(sets) |->
     IF sets[i].id # setId THEN sets[i]
     ELSE IF sets[i].actualReps = 0
          THEN [sets[i] EXCEPT !.actualReps = sets[i].targetReps]
          ELSE [sets[i] EXCEPT !.actualReps = Max(0, sets[i].actualReps - 1)]]

\* setSessionSetCustomReps: the sets.map(...) of the custom value.
CustomRepsSets(sets, setId, reps) ==
  [i \in 1..Len(sets) |->
     IF sets[i].id # setId THEN sets[i]
     ELSE [sets[i] EXCEPT !.actualReps = Max(0, reps)]]

\* finishActiveWorkoutSession: the input handed to createWorkoutSession.
HistoryInput(session, t) ==
  [workoutId |-> session.workoutId,
   performedAt |-> t,
   bodyweightKg |-> session.bodyweightKg,
   sets |-> [i \in 1..Len(session.sets) |->
               [workoutExerciseId |-> session.sets[i].workoutExerciseId,
                exerciseName |-> session.sets[i].exerciseName,
                setNumber |-> session.sets[i].setNumber,
                reps |-> session.sets[i].actualReps,
                weightKg |-> session.sets[i].targetWeightKg]]]

(***************************************************************************)
(* Async calls in flight.  A task is a call of a store function (or of a   *)
(* screen handler around it) suspended at an await: pc names the await,    *)
(* next is the nextSession it computed, wk the workouts it read, ui the    *)
(* values its screen handler closed over (NoUi for a bare store call).     *)
(***************************************************************************)
NoUi == [none |-> TRUE]
NoError == "null"

\* id tells apart two calls with the same arguments: the number of calls
\* made before this one.
Task(kind, pc, arg, next, wk, ui) ==
  [id |-> calls, kind |-> kind, pc |-> pc, arg |-> arg, next |-> next, wk |-> wk, ui |-> ui]

Settled(kind, outcome) == [kind |-> kind, outcome |-> outcome]

\* The transitions that end in: await saveActiveWorkoutSession(nextSession);
\* set({ activeSession: nextSession, error: null }).
TransitionKinds == {"start", "bodyweight", "pause", "resume", "tap", "custom"}

AppReady == hydrated \/ error # NoError
CanCall == AppReady /\ calls < MaxCalls /\ Cardinality(tasks) < MaxInFlight
CanFail == failures < MaxFailures

\* The set(...) of a transition not waiting for the save.
SaveAcceptedNotAwaited(t) == TRUE

\* The await of saveActiveWorkoutSession has let the write through.
SaveAccepted(t) == t.pc = "saved"

\* Date.now() is the wall clock: between two reads it can move forward, and
\* after a clock adjustment backwards.
Tick ==
  /\ \E t \in 0..MaxNow : t # now /\ now' = t
  /\ UNCHANGED <<storeVars, dbVars, tasks, result, countVars, restVars, loadVars>>

(***************************************************************************)
(* bootstrap / loadPersistedState.                                         *)
(***************************************************************************)
BootstrapCall ==
  /\ ~hydrated /\ ~bootstrapping /\ error = NoError
  /\ bootstrapping' = TRUE
  /\ error' = NoError
  /\ tasks' = tasks \cup {Task("bootstrap", "loading", "", NoSession, EmptyWorkouts, NoUi)}
  /\ UNCHANGED <<now, activeSession, workouts, hydrated, mutating, dbVars, result,
                 countVars, restVars, loadVars>>

\* set({ ...persistedState, hydrated: true, error: null }) and the finally.
BootstrapSet(session, wk) ==
  /\ activeSession' = session
  /\ workouts' = wk
  /\ hydrated' = TRUE
  /\ error' = NoError
  /\ bootstrapping' = FALSE

\* loadPersistedState without the check against the templates.
IsOrphanNeverChecked(session, wk) == FALSE

\* loadPersistedState: the stored session names no workout that exists.
IsOrphan(session, wk) == session.workoutId \notin DOMAIN wk.weeks

\* The three reads of loadPersistedState have resolved.
BootstrapLoaded(t) ==
  /\ t \in tasks /\ t.kind = "bootstrap" /\ t.pc = "loading"
  /\ LET wk == listWorkouts(dbWorkouts, dbSessions, dbExercises)
         storedSession == loadActiveWorkoutSession(stored).value
     IN IF storedSession # NoSession /\ IsOrphan(storedSession, wk)
        THEN /\ tasks' = (tasks \ {t}) \cup
                           {Task("bootstrap", "clearing", "", NoSession, wk, NoUi)}
             /\ UNCHANGED storeVars
        ELSE IF storedSession # NoSession /\ ~storedSession.isPaused
        THEN /\ tasks' = (tasks \ {t}) \cup
                  {Task("bootstrap", "saving", "",
                        [pauseSession(storedSession, now) EXCEPT !.restoredFromAppClose = TRUE],
                        wk, NoUi)}
             /\ UNCHANGED storeVars
        ELSE /\ tasks' = tasks \ {t}
             /\ BootstrapSet(storedSession, wk)
             /\ UNCHANGED mutating
  /\ UNCHANGED <<now, dbVars, result, countVars, restVars, loadVars>>

\* initializeDatabase or a read of loadPersistedState rejects: the catch sets
\* the error, the finally clears bootstrapping.
BootstrapLoadFails(t) ==
  /\ t \in tasks /\ t.kind = "bootstrap" /\ t.pc = "loading"
  /\ CanFail
  /\ failures' = failures + 1
  /\ tasks' = tasks \ {t}
  /\ error' = "bootstrap failed"
  /\ bootstrapping' = FALSE
  /\ UNCHANGED <<now, activeSession, workouts, hydrated, mutating, dbVars, result,
                 calls, restVars, loadVars>>

(***************************************************************************)
(* The session transitions of the store, up to their await of the save.    *)
(***************************************************************************)
\* A call that returns or throws before any await.
SettleNow(kind, outcome) ==
  /\ result' = Settled(kind, outcome)
  /\ calls' = calls + 1
  /\ UNCHANGED <<now, storeVars, dbVars, tasks, failures, restVars, loadVars>>

\* A call that reaches await saveActiveWorkoutSession(nextSession).
AwaitSave(kind, arg, nextSession, ui) ==
  /\ tasks' = tasks \cup {Task(kind, "saving", arg, nextSession, EmptyWorkouts, ui)}
  /\ calls' = calls + 1
  /\ UNCHANGED <<now, storeVars, dbVars, result, failures, loadVars>>

startWorkoutSession(w) ==
  /\ CanCall
  /\ IF StartConflict(activeSession, w) THEN SettleNow("start", "rejected")
     ELSE IF StartIsRepeat(activeSession, w)
     THEN SettleNow("start", "returned")
     ELSE IF w \notin DOMAIN workouts.weeks THEN SettleNow("start", "rejected")
     ELSE /\ AwaitSave("start", w, NewSession(FindWorkout(workouts, w), now), NoUi)
          /\ UNCHANGED restVars

BodyweightInputs == {JNull, JNum(-1), JNum(7)}

setActiveWorkoutBodyweight(bodyweightKg) ==
  /\ CanCall
  /\ IF activeSession = NoSession THEN SettleNow("bodyweight", "returned")
     ELSE IF activeSession.bodyweightKg = NormalizedBodyweightInput(bodyweightKg)
     THEN SettleNow("bodyweight", "returned")
     ELSE /\ AwaitSave("bodyweight", "",
                       [activeSession EXCEPT
                          !.bodyweightKg = NormalizedBodyweightInput(bodyweightKg)], NoUi)
          /\ UNCHANGED restVars

\* A pause that goes on for a session that is already paused.
PauseReturnsEarlyOnlyWithoutSession(session) == session = NoSession

\* pauseActiveWorkoutSession: if (!session || session.isPaused) return.
PauseReturnsEarly(session) == session = NoSession \/ session.isPaused

pauseActiveWorkoutSession ==
  /\ CanCall
  /\ IF PauseReturnsEarly(activeSession)
     THEN SettleNow("pause", "returned")
     ELSE /\ AwaitSave("pause", "",
                       [pauseSession(activeSession, now) EXCEPT !.restoredFromAppClose = FALSE],
                       NoUi)
          /\ UNCHANGED restVars

resumeActiveWorkoutSession ==
  /\ CanCall
  /\ IF activeSession = NoSession \/ ~activeSession.isPaused
     THEN SettleNow("resume", "returned")
     ELSE /\ AwaitSave("resume", "", resumeSession(activeSession, now), NoUi)
          /\ UNCHANGED restVars

\* The set ids a caller may pass: those of the session and one it lacks.
SetIdInputs ==
  {"none"} \cup
    (IF activeSession = NoSession THEN {}
     ELSE {activeSession.sets[i].id : i \in 1..Len(activeSession.sets)})

decrementOrCompleteSessionSet(setId) ==
  /\ CanCall
  /\ IF activeSession = NoSession THEN SettleNow("tap", "returned")
     ELSE IF ~HasSet(activeSession, setId) THEN SettleNow("tap", "returned")
     ELSE /\ AwaitSave("tap", setId,
                       [activeSession EXCEPT !.sets = TappedSets(activeSession.sets, setId)],
                       NoUi)
          /\ UNCHANGED restVars

CustomRepsInputs == {-1, 3}

setSessionSetCustomReps(setId, reps) ==
  /\ CanCall
  /\ IF activeSession = NoSession THEN SettleNow("custom", "returned")
     ELSE IF ~HasSet(activeSession, setId) THEN SettleNow("custom", "returned")
     ELSE /\ AwaitSave("custom", setId,
                       [activeSession EXCEPT
                          !.sets = CustomRepsSets(activeSession.sets, setId, reps)], NoUi)
          /\ UNCHANGED restVars

\* The set entries the session screen renders.
RenderedSets ==
  IF activeSession = NoSession THEN {}
  ELSE {activeSession.sets[i] : i \in 1..Len(activeSession.sets)}

\* saveCustomSetValues in "reps" mode: the check of the parsed input.
RepsInputIsInvalid(parsedReps) == parsedReps < 0

\* saveCustomSetValues of the custom-value modal opened on a rendered set:
\* an invalid input shows the inline error and calls nothing; a valid one
\* is handed to the store.
saveCustomSetValues(setEntry, parsedReps) ==
  IF RepsInputIsInvalid(parsedReps)
  THEN CanCall /\ SettleNow("custom", "invalid")
  ELSE setSessionSetCustomReps(setEntry.id, parsedReps)

(***************************************************************************)
(* The workouts screen: rest timer and rest notification.  A handler reads *)
(* the screen state of the render it was created in (ui.notif, ui.timerSet,*)
(* ui.set); the token is a ref and is always read live.                    *)
(***************************************************************************)
NoTimer == [none |-> TRUE]

Closure(setEntry) ==
  [set |-> setEntry,
   notif |-> restNotificationId,
   timerSet |-> IF activeRestTimer = NoTimer THEN "" ELSE activeRestTimer.setId,
   token |-> 0,
   handle |-> 0]

\* A start or clear that leaves the token as it is.
RestTokenKept(token) == token

\* restScheduleTokenRef.current + 1: the token of the next start or clear.
NextRestToken(token) == token + 1

\* startRestTimer up to its first await: bump the token, show the timer,
\* forget the stored handle, then cancel the handle this render knew (if any)
\* or go straight to scheduling.
StartRestTimerBegin(t) ==
  /\ restScheduleToken' = NextRestToken(restScheduleToken)
  /\ activeRestTimer' = [setId |-> t.ui.set.id, exerciseName |-> t.ui.set.exerciseName,
                         startedAt |-> now]
  /\ restNotificationId' = 0
  /\ tasks' = (tasks \ {t}) \cup
       {[t EXCEPT !.pc = IF t.ui.notif # 0 THEN "cancelPrevious" ELSE "scheduling",
                  !.ui.token = NextRestToken(restScheduleToken)]}
  /\ UNCHANGED <<live, handles>>

\* clearRestTimer up to its await.
ClearRestTimerBegin(t) ==
  /\ restScheduleToken' = NextRestToken(restScheduleToken)
  /\ activeRestTimer' = NoTimer
  /\ restNotificationId' = 0
  /\ tasks' = IF t.ui.notif # 0
              THEN (tasks \ {t}) \cup {[t EXCEPT !.pc = "cancelCleared"]}
              ELSE tasks \ {t}
  /\ UNCHANGED <<live, handles>>

\* handleSetPress after await decrementOrCompleteSessionSet(setEntry.id).
AfterSetPress(t) ==
  /\ sessionActionError' = FALSE
  /\ IF t.ui.set.actualReps = 0 THEN StartRestTimerBegin(t)
     ELSE IF t.ui.timerSet = t.ui.set.id THEN ClearRestTimerBegin(t)
     ELSE /\ tasks' = tasks \ {t}
          /\ UNCHANGED <<restScheduleToken, restNotificationId, activeRestTimer, live, handles>>

\* handleSetPress(setEntry) up to await decrementOrCompleteSessionSet: the
\* handler of the rendered set entry, closed over this render's state.
MaxHandlers == 2

handleSetPress(setEntry) ==
  /\ activeSession # NoSession
  /\ calls < MaxCalls
  /\ Cardinality(tasks) < MaxHandlers
  /\ AwaitSave("tap", setEntry.id,
               [activeSession EXCEPT !.sets = TappedSets(activeSession.sets, setEntry.id)],
               Closure(setEntry))
  /\ UNCHANGED restVars

\* await cancelScheduledNotification(notificationToCancel) of startRestTimer.
CancelPreviousResolves(t) ==
  /\ t \in tasks /\ t.pc = "cancelPrevious"
  /\ live' = live \ {t.ui.notif}
  /\ tasks' = (tasks \ {t}) \cup {[t EXCEPT !.pc = "scheduling"]}
  /\ UNCHANGED <<now, storeVars, dbVars, result, countVars, loadVars,
                 restScheduleToken, restNotificationId, activeRestTimer,
                 sessionActionError, handles>>

\* startRestTimer adopting every handle, whatever the token.
TokenNeverCompared(t) == TRUE

\* restScheduleTokenRef.current === nextToken after the schedule call.
TokenIsCurrent(t) == restScheduleToken = t.ui.token

\* scheduleRestCompleteNotification resolves with a handle.  The handle of a
\* notification is named by the token of the call that scheduled it.
ScheduleResolves(t) ==
  /\ t \in tasks /\ t.pc = "scheduling"
  /\ live' = live \cup {t.ui.token}
  /\ IF TokenIsCurrent(t)
     THEN /\ restNotificationId' = t.ui.token
          /\ handles' = handles @@ (t.ui.token :> "stored")
          /\ tasks' = tasks \ {t}
     ELSE /\ restNotificationId' = restNotificationId
          /\ handles' = handles @@ (t.ui.token :> "stale")
          /\ tasks' = (tasks \ {t}) \cup
               {[t EXCEPT !.pc = "cancelStale", !.ui.handle = t.ui.token]}
  /\ UNCHANGED <<now, storeVars, dbVars, result, countVars, loadVars,
                 restScheduleToken, activeRestTimer, sessionActionError>>

\* scheduleRestCompleteNotification resolves with null: no permission.
ScheduleReturnsNull(t) ==
  /\ t \in tasks /\ t.pc = "scheduling"
  /\ restNotificationId' = IF TokenIsCurrent(t) THEN 0 ELSE restNotificationId
  /\ tasks' = tasks \ {t}
  /\ UNCHANGED <<now, storeVars, dbVars, result, countVars, loadVars,
                 restScheduleToken, activeRestTimer, sessionActionError, live, handles>>

\* await cancelScheduledNotification(nextNotificationId) of a stale start.
CancelStaleResolves(t) ==
  /\ t \in tasks /\ t.pc = "cancelStale"
  /\ live' = live \ {t.ui.handle}
  /\ tasks' = tasks \ {t}
  /\ UNCHANGED <<now, storeVars, dbVars, result, countVars, loadVars,
                 restScheduleToken, restNotificationId, activeRestTimer,
                 sessionActionError, handles>>

\* A call made by a screen handler: the task carries what the handler closed
\* over.
IsPressed(t) == "notif" \in DOMAIN t.ui

\* handleFinishSession / handleDiscardSession after await clearRestTimer():
\* the store call up to its first await.  t is the handler so far, others the
\* other calls in flight.
EndSessionCall(t, others) ==
  IF activeSession = NoSession
  THEN /\ tasks' = others
       /\ result' = Settled(t.kind, "returned")
       /\ UNCHANGED <<mutating, error>>
  ELSE IF t.kind = "discard"
  THEN /\ tasks' = others \cup {[t EXCEPT !.pc = "clearing"]}
       /\ UNCHANGED <<mutating, error, result>>
  ELSE /\ tasks' = others \cup
            {[t EXCEPT !.pc = "creating", !.next = activeSession, !.ui.performedAt = now]}
       /\ mutating' = TRUE
       /\ error' = NoError
       /\ UNCHANGED result

\* handleFinishSession / handleDiscardSession: clearRestTimer up to its
\* await and, when there is no notification to cancel, the store call.  The
\* two buttons are disabled while mutating is set.
handleEndSession(kind) ==
  /\ activeSession # NoSession
  /\ ~mutating
  /\ calls < MaxCalls
  /\ Cardinality(tasks) < MaxHandlers
  /\ calls' = calls + 1
  /\ restScheduleToken' = NextRestToken(restScheduleToken)
  /\ activeRestTimer' = NoTimer
  /\ restNotificationId' = 0
  /\ LET t == Task(kind, "cancelCleared", "", NoSession, EmptyWorkouts,
                   [notif |-> restNotificationId, performedAt |-> 0])
     IN IF restNotificationId # 0
        THEN /\ tasks' = tasks \cup {t}
             /\ UNCHANGED <<mutating, error, result>>
        ELSE EndSessionCall(t, tasks)
  /\ UNCHANGED <<now, activeSession, workouts, hydrated, bootstrapping, dbVars, failures,
                 sessionActionError, live, handles, loadVars>>

handleFinishSession == handleEndSession("finish")

handleDiscardSession == handleEndSession("discard")

\* await cancelScheduledNotification(notificationToCancel) of clearRestTimer;
\* a finish or discard handler goes on to its store call.
CancelClearedResolves(t) ==
  /\ t \in tasks /\ t.pc = "cancelCleared"
  /\ live' = live \ {t.ui.notif}
  /\ IF t.kind \in {"finish", "discard"}
     THEN EndSessionCall(t, tasks \ {t})
     ELSE /\ tasks' = tasks \ {t}
          /\ UNCHANGED <<mutating, error, result>>
  /\ UNCHANGED <<now, activeSession, workouts, hydrated, bootstrapping, dbVars, countVars,
                 loadVars, restScheduleToken, restNotificationId, activeRestTimer,
                 sessionActionError, handles>>

\* A notification call rejects: startRestTimer / clearRestTimer rethrow and
\* the catch of handleSetPress shows the error.
NotificationRejects(t) ==
  /\ t \in tasks
  /\ t.pc \in {"cancelPrevious", "scheduling", "cancelStale", "cancelCleared"}
  /\ CanFail
  /\ failures' = failures + 1
  /\ sessionActionError' = TRUE
  /\ tasks' = tasks \ {t}
  /\ UNCHANGED <<now, storeVars, dbVars, result, calls, loadVars,
                 restScheduleToken, restNotificationId, activeRestTimer, live, handles>>

\* useEffect(..., [activeSession, restNotificationId]) of the workouts screen
\* once the session is gone: setActiveRestTimer(null) and, if a handle is
\* stored, void cancelScheduledNotification(restNotificationId) and
\* setRestNotificationId(null).  The token is left as it is and the cancel is
\* not awaited.
SessionEndedEffect ==
  /\ activeSession = NoSession
  /\ activeRestTimer # NoTimer \/ restNotificationId # 0
  /\ activeRestTimer' = NoTimer
  /\ restNotificationId' = 0
  /\ tasks' = IF restNotificationId = 0 THEN tasks
              ELSE tasks \cup
                     {[Task("effect", "cancelEnded", "", NoSession, EmptyWorkouts,
                            [notif |-> restNotificationId])
                         EXCEPT !.id = 0 - restNotificationId]}
  /\ UNCHANGED <<now, storeVars, dbVars, result, countVars, loadVars,
                 restScheduleToken, sessionActionError, live, handles>>

\* The cancelScheduledNotification of the effect resolves.
CancelEndedResolves(t) ==
  /\ t \in tasks /\ t.pc = "cancelEnded"
  /\ live' = live \ {t.ui.notif}
  /\ tasks' = tasks \ {t}
  /\ UNCHANGED <<now, storeVars, dbVars, result, countVars, loadVars,
                 restScheduleToken, restNotificationId, activeRestTimer,
                 sessionActionError, handles>>

\* The cancelScheduledNotification of the effect rejects: nothing awaits it.
CancelEndedRejects(t) ==
  /\ t \in tasks /\ t.pc = "cancelEnded"
  /\ CanFail
  /\ failures' = failures + 1
  /\ tasks' = tasks \ {t}
  /\ UNCHANGED <<now, storeVars, dbVars, result, calls, loadVars, restVars>>

(***************************************************************************)
(* The save of a transition resolving, and the set(...) after it.          *)
(***************************************************************************)
\* saveActiveWorkoutSession: the upsert of row 1 with JSON.stringify(session).
SaveResolves(t) ==
  /\ t \in tasks /\ t.pc = "saving"
  /\ stored' = SessionToJSON(t.next)
  /\ tasks' = (tasks \ {t}) \cup {[t EXCEPT !.pc = "saved"]}
  /\ UNCHANGED <<now, storeVars, dbWorkouts, dbSessions, dbExercises, result, countVars,
                 restVars, loadVars>>

\* A transition whose set(...) runs although the save rejected.
SessionSetDespiteRejectedSave(session, t) == t.next

\* The in-memory session after a save that rejected: the set(...) behind the
\* await is not reached.
SessionAfterRejectedSave(session, t) == session

\* The save rejects: a transition rethrows to its caller (handleSetPress
\* catches and shows the error), bootstrap records the error.
SaveRejects(t) ==
  /\ t \in tasks /\ t.pc = "saving"
  /\ CanFail
  /\ failures' = failures + 1
  /\ tasks' = tasks \ {t}
  /\ IF t.kind = "bootstrap"
     THEN /\ error' = "bootstrap failed"
          /\ bootstrapping' = FALSE
          /\ UNCHANGED <<result, sessionActionError>>
     ELSE /\ result' = Settled(t.kind, "rejected")
          /\ sessionActionError' = IF t.ui # NoUi THEN TRUE ELSE sessionActionError
          /\ UNCHANGED <<error, bootstrapping>>
  /\ activeSession' = SessionAfterRejectedSave(activeSession, t)
  /\ UNCHANGED <<now, workouts, hydrated, mutating, dbVars, calls,
                 restScheduleToken, restNotificationId, activeRestTimer, live, handles,
                 loadVars>>

\* set({ activeSession: nextSession, error: null }) of a transition.
CommitSession(t) ==
  /\ t \in tasks /\ t.kind \in TransitionKinds
  /\ SaveAccepted(t)
  /\ activeSession' = t.next
  /\ error' = NoError
  /\ result' = Settled(t.kind, "resolved")
  /\ IF t.ui = NoUi
     THEN /\ tasks' = tasks \ {t}
          /\ UNCHANGED restVars
     ELSE AfterSetPress(t)
  /\ UNCHANGED <<now, workouts, hydrated, bootstrapping, mutating, dbVars, countVars, loadVars>>

\* bootstrap after the re-save of the force-paused session, or after the
\* clear of an orphaned one.
BootstrapCommit(t) ==
  /\ t \in tasks /\ t.kind = "bootstrap"
  /\ t.pc \in {"saved", "cleared"}
  /\ tasks' = tasks \ {t}
  /\ BootstrapSet(t.next, t.wk)
  /\ UNCHANGED <<now, mutating, dbVars, result, countVars, restVars, loadVars>>

(***************************************************************************)
(* finishActiveWorkoutSession and discardActiveWorkoutSession.             *)
(***************************************************************************)
\* The argument of createWorkoutSession is built before the await, with the
\* Date.now() of the call.
finishActiveWorkoutSession ==
  /\ CanCall
  /\ ~mutating
  /\ IF activeSession = NoSession THEN SettleNow("finish", "returned")
     ELSE /\ mutating' = TRUE
          /\ error' = NoError
          /\ tasks' = tasks \cup
               {Task("finish", "creating", "", activeSession, EmptyWorkouts,
                     [performedAt |-> now])}
          /\ calls' = calls + 1
          /\ UNCHANGED <<now, activeSession, workouts, hydrated, bootstrapping, dbVars,
                         result, failures, restVars, loadVars>>

\* createWorkoutSession: the session row and its set rows in one transaction.
CreateResolves(t) ==
  /\ t \in tasks /\ t.kind = "finish" /\ t.pc = "creating"
  /\ t.next.workoutId \in DOMAIN dbWorkouts    \* FOREIGN KEY (workout_id)
  /\ dbSessions' = Append(dbSessions, HistoryInput(t.next, t.ui.performedAt))
  /\ tasks' = (tasks \ {t}) \cup {[t EXCEPT !.pc = "listing"]}
  /\ UNCHANGED <<now, storeVars, stored, dbWorkouts, dbExercises, result, countVars,
                 restVars, loadVars>>

ListResolves(t) ==
  /\ t \in tasks /\ t.kind = "finish" /\ t.pc = "listing"
  /\ tasks' = (tasks \ {t}) \cup
       {[t EXCEPT !.pc = "clearing", !.wk = listWorkouts(dbWorkouts, dbSessions, dbExercises)]}
  /\ UNCHANGED <<now, storeVars, dbVars, result, countVars, restVars, loadVars>>

\* Any await of finish rejects: catch sets the error and rethrows, finally
\* clears mutating.
FinishRejects(t) ==
  /\ t \in tasks /\ t.kind = "finish" /\ t.pc \in {"creating", "listing", "clearing"}
  /\ CanFail
  /\ failures' = failures + 1
  /\ tasks' = tasks \ {t}
  /\ error' = "finish failed"
  /\ mutating' = FALSE
  /\ result' = Settled("finish", "rejected")
  /\ sessionActionError' = IF IsPressed(t) THEN TRUE ELSE sessionActionError
  /\ UNCHANGED <<now, activeSession, workouts, hydrated, bootstrapping, dbVars, calls,
                 restScheduleToken, restNotificationId, activeRestTimer, live, handles,
                 loadVars>>

FinishCommit(t) ==
  /\ t \in tasks /\ t.kind = "finish" /\ t.pc = "cleared"
  /\ tasks' = tasks \ {t}
  /\ workouts' = t.wk
  /\ activeSession' = NoSession
  /\ error' = NoError
  /\ mutating' = FALSE
  /\ result' = Settled("finish", "resolved")
  /\ UNCHANGED <<now, hydrated, bootstrapping, dbVars, countVars, restVars, loadVars>>

discardActiveWorkoutSession ==
  /\ CanCall
  /\ ~mutating
  /\ IF activeSession = NoSession THEN SettleNow("discard", "returned")
     ELSE /\ tasks' = tasks \cup
               {Task("discard", "clearing", "", NoSession, EmptyWorkouts, NoUi)}
          /\ calls' = calls + 1
          /\ UNCHANGED <<now, storeVars, dbVars, result, failures, restVars, loadVars>>

\* clearActiveWorkoutSession: DELETE of row 1.
ClearResolves(t) ==
  /\ t \in tasks /\ t.pc = "clearing"
  /\ stored' = NoRow
  /\ tasks' = (tasks \ {t}) \cup {[t EXCEPT !.pc = "cleared"]}
  /\ UNCHANGED <<now, storeVars, dbWorkouts, dbSessions, dbExercises, result, countVars,
                 restVars, loadVars>>

\* The clear of discard or of bootstrap rejects.
ClearRejects(t) ==
  /\ t \in tasks /\ t.kind \in {"discard", "bootstrap"} /\ t.pc = "clearing"
  /\ CanFail
  /\ failures' = failures + 1
  /\ tasks' = tasks \ {t}
  /\ IF t.kind = "bootstrap"
     THEN /\ error' = "bootstrap failed"
          /\ bootstrapping' = FALSE
          /\ UNCHANGED result
     ELSE /\ error' = "discard failed"
          /\ result' = Settled("discard", "rejected")
          /\ UNCHANGED bootstrapping
  /\ sessionActionError' = IF IsPressed(t) THEN TRUE ELSE sessionActionError
  /\ UNCHANGED <<now, activeSession, workouts, hydrated, mutating, dbVars, calls,
                 restScheduleToken, restNotificationId, activeRestTimer, live, handles,
                 loadVars>>

\* A discard that leaves the session in memory.
SessionKeptByDiscard(session) == session

\* discardActiveWorkoutSession: set({ activeSession: null, error: null }).
SessionAfterDiscard(session) == NoSession

DiscardCommit(t) ==
  /\ t \in tasks /\ t.kind = "discard" /\ t.pc = "cleared"
  /\ tasks' = tasks \ {t}
  /\ activeSession' = SessionAfterDiscard(activeSession)
  /\ error' = NoError
  /\ result' = Settled("discard", "resolved")
  /\ UNCHANGED <<now, workouts, hydrated, bootstrapping, mutating, dbVars, countVars,
                 restVars, loadVars>>

(***************************************************************************)
(* The store specification: the app launches on a database left by an      *)
(* earlier run, bootstraps, and the store functions are called.            *)
(***************************************************************************)
SeedTemplates == [w \in WorkoutIds |-> IF w = "wA" THEN 1 ELSE 0]

SeedExercises == [w \in WorkoutIds |-> Exercises(w)]

\* What listWorkouts returns on the database of the launch.
SeedWorkouts == listWorkouts(SeedTemplates, << >>, SeedExercises)

SeedSession == NewSession(FindWorkout(SeedWorkouts, "wA"), 0)

\* A session left running, as startWorkoutSession saved it.
RunningRow == SessionToJSON(SeedSession)

\* A paused session in which set 1 was done with an edited weight.
EditedRow ==
  SessionToJSON([SeedSession EXCEPT !.isPaused = TRUE,
                                    !.pauseStartedAt = JNum(0),
                                    !.sets[1].actualReps = 2,
                                    !.sets[1].actualWeightKg = JNum(-1)])

\* A session whose workout template is gone.
OrphanRow == SessionToJSON([SeedSession EXCEPT !.workoutId = "wGone"])

\* A payload the normalizer accepts although no transition writes it: paused
\* without a pause timestamp.
UnstampedRow ==
  SessionToJSON([SeedSession EXCEPT !.isPaused = TRUE, !.pauseStartedAt = JNull])

InitRows == {NoRow, RunningRow, EditedRow, UnstampedRow, OrphanRow, BadText}

Launched ==
  /\ now = 0
  /\ activeSession = NoSession
  /\ workouts = EmptyWorkouts
  /\ hydrated = FALSE
  /\ bootstrapping = FALSE
  /\ mutating = FALSE
  /\ error = NoError
  /\ dbWorkouts = SeedTemplates
  /\ dbSessions = << >>
  /\ dbExercises = SeedExercises
  /\ tasks = {}
  /\ result = Settled("none", "none")
  /\ calls = 0 /\ failures = 0
  /\ restScheduleToken = 0
  /\ restNotificationId = 0
  /\ activeRestTimer = NoTimer
  /\ sessionActionError = FALSE
  /\ live = {}
  /\ handles = << >>

Init ==
  /\ Launched
  /\ stored \in InitRows
  /\ loadPayload = NoRow
  /\ loadResult = NotLoaded
  /\ targetArgs = NoArgs
  /\ targetWeight = NotComputed
  /\ buildWorkout = NoArgs
  /\ builtSets = NotComputed
  /\ groupInput = NoArgs
  /\ groupResult = NotComputed
  /\ killed = NotKilled

Next ==
  \/ Tick
  \/ BootstrapCall
  \/ \E t \in tasks : BootstrapLoaded(t)
  \/ \E t \in tasks : BootstrapLoadFails(t)
  \/ \E t \in tasks : BootstrapCommit(t)
  \/ \E w \in WorkoutIds : startWorkoutSession(w)
  \/ \E b \in BodyweightInputs : setActiveWorkoutBodyweight(b)
  \/ pauseActiveWorkoutSession
  \/ resumeActiveWorkoutSession
  \/ \E setId \in SetIdInputs : decrementOrCompleteSessionSet(setId)
  \/ \E setId \in SetIdInputs, reps \in CustomRepsInputs : setSessionSetCustomReps(setId, reps)
  \/ \E setEntry \in RenderedSets, reps \in CustomRepsInputs : saveCustomSetValues(setEntry, reps)
  \/ \E t \in tasks : SaveResolves(t)
  \/ \E t \in tasks : SaveRejects(t)
  \/ \E t \in tasks : CommitSession(t)
  \/ finishActiveWorkoutSession
  \/ \E t \in tasks : CreateResolves(t)
  \/ \E t \in tasks : ListResolves(t)
  \/ \E t \in tasks : FinishRejects(t)
  \/ \E t \in tasks : FinishCommit(t)
  \/ discardActiveWorkoutSession
  \/ \E t \in tasks : ClearResolves(t)
  \/ \E t \in tasks : ClearRejects(t)
  \/ \E t \in tasks : DiscardCommit(t)

Spec == Init /\ [][Next]_vars

(***************************************************************************)
(* Properties of the store (specification Spec).                           *)
(***************************************************************************)
\* The session loadPersistedState reads from the table.
StoredSession == loadActiveWorkoutSession(stored).value

\* C1: startWorkoutSession(w) while the active session belongs to another
\* workout rejects, and leaves the in-memory session, the stored row and the
\* calls in flight as they were.
C1_StartConflictRejected ==
  [][\A w \in WorkoutIds :
       (activeSession # NoSession /\ activeSession.workoutId # w /\ startWorkoutSession(w))
         => /\ result' = Settled("start", "rejected")
            /\ activeSession' = activeSession
            /\ stored' = stored
            /\ tasks' = tasks]_vars

C1_Witness ==
  /\ result = Settled("start", "rejected")
  /\ activeSession # NoSession
  /\ StoredSession = activeSession

\* C2 (the claim as stated): when an await of finishActiveWorkoutSession
\* rejects, the session is still in memory and in the store and no history
\* record of it has been written.
C2_FinishFailureNotPartial ==
  [][\A t \in tasks :
       FinishRejects(t)
         => /\ activeSession' = t.next
            /\ stored' = stored /\ stored' # NoRow
            /\ ~\E i \in DOMAIN dbSessions' :
                  dbSessions'[i] = HistoryInput(t.next, dbSessions'[i].performedAt)]_vars

\* C3 (the claim as stated): the record finish writes has, per active set,
\* reps = actualReps and weightKg = actualWeightKg; exactly one record is
\* written and after the finish no session is left in memory or in the store.
C3_FinishWritesActualValues ==
  [][\A t \in tasks :
       /\ CreateResolves(t)
            => /\ Len(dbSessions') = Len(dbSessions) + 1
               /\ LET written == dbSessions'[Len(dbSessions')]
                  IN /\ Len(written.sets) = Len(t.next.sets)
                     /\ \A i \in 1..Len(t.next.sets) :
                          /\ written.sets[i].reps = t.next.sets[i].actualReps
                          /\ t.next.sets[i].actualWeightKg # JMissing
                               => written.sets[i].weightKg = t.next.sets[i].actualWeightKg.n
       /\ FinishCommit(t)
            => /\ activeSession' = NoSession
               /\ stored' = NoRow
               /\ dbSessions' = dbSessions]_vars

\* C6: a transition's nextSession becomes the in-memory session only in a
\* step taken by a call whose save the store has accepted; and a call counts
\* as accepted exactly from the step in which the row was written with it.
C6_SaveBeforeCommit ==
  [][/\ (activeSession' # activeSession /\ activeSession' # NoSession
           /\ ~\E b \in tasks : b.kind = "bootstrap")
          => \E t \in tasks : t.kind \in TransitionKinds /\ t.pc = "saved"
                              /\ t.next = activeSession'
     /\ \A t \in tasks' : (t.pc = "saved" /\ t \notin tasks)
          => stored' = SessionToJSON(t.next)]_vars

C6_Witness ==
  /\ result.outcome = "resolved" /\ result.kind \in TransitionKinds
  /\ activeSession # NoSession
  /\ stored = SessionToJSON(activeSession)

\* C7: when the save of a transition rejects, the call rejects, the
\* in-memory session and the stored row stay as they are, and the call is
\* over (it never commits its nextSession).
C7_RejectedSaveLeavesSession ==
  [][\A t \in tasks :
       (t.kind \in TransitionKinds /\ SaveRejects(t))
         => /\ result' = Settled(t.kind, "rejected")
            /\ activeSession' = activeSession
            /\ stored' = stored
            /\ t \notin tasks']_vars

C7_Witness ==
  /\ result.outcome = "rejected" /\ result.kind \in TransitionKinds \ {"start"}
  /\ failures = 1
  /\ activeSession # NoSession

\* C8: recovery of a stored session that is not paused computes a session
\* that is paused at the recovery time and marked restoredFromAppClose, with
\* sets, startedAt and totalPausedMs as loaded, leaves memory alone until the
\* save, and commits it only once the row holds it.
C8_RecoveryForcePauses ==
  [][\A t \in tasks :
       /\ (BootstrapLoaded(t) /\ StoredSession # NoSession
             /\ StoredSession.workoutId \in DOMAIN dbWorkouts /\ ~StoredSession.isPaused)
            => /\ activeSession' = activeSession
               /\ \E u \in tasks' :
                    /\ u.kind = "bootstrap" /\ u.pc = "saving"
                    /\ u.next.isPaused
                    /\ u.next.pauseStartedAt = JNum(now)
                    /\ u.next.restoredFromAppClose
                    /\ u.next.sets = StoredSession.sets
                    /\ u.next.startedAt = StoredSession.startedAt
                    /\ u.next.totalPausedMs = StoredSession.totalPausedMs
                    /\ u.next.workoutId = StoredSession.workoutId
                    /\ u.next.bodyweightKg = StoredSession.bodyweightKg
       /\ (BootstrapCommit(t) /\ t.next # NoSession)
            => /\ stored = SessionToJSON(t.next)
               /\ activeSession' = t.next
               /\ hydrated']_vars

C8_Witness ==
  /\ hydrated /\ calls = 0 /\ now > 0
  /\ activeSession # NoSession
  /\ activeSession.isPaused /\ activeSession.restoredFromAppClose
  /\ activeSession.pauseStartedAt = JNum(now)
  /\ stored = SessionToJSON(activeSession)

\* C9: recovery of a stored session whose workoutId names no template
\* deletes the row and ends with no active session.
C9_RecoveryDropsOrphan ==
  [][\A t \in tasks :
       /\ (BootstrapLoaded(t) /\ StoredSession # NoSession
             /\ StoredSession.workoutId \notin DOMAIN dbWorkouts)
            => /\ activeSession' = NoSession
               /\ \E u \in tasks' : u.kind = "bootstrap" /\ u.pc = "clearing"
                                    /\ u.next = NoSession
       /\ (t.kind = "bootstrap" /\ t.pc = "clearing" /\ ClearResolves(t))
            => stored' = NoRow
       /\ (BootstrapCommit(t) /\ t.pc = "cleared")
            => /\ stored = NoRow
               /\ activeSession' = NoSession
               /\ hydrated']_vars

C9_Witness ==
  /\ activeSession = NoSession
  /\ stored = NoRow
  /\ \E t \in tasks : t.kind = "bootstrap" /\ t.pc = "cleared" /\ t.next = NoSession

(***************************************************************************)
(* loadActiveWorkoutSession on stored payloads (specification SpecLoad).   *)
(* The table holds one payload, well formed or damaged in one place, and   *)
(* the function is applied to it.                                          *)
(***************************************************************************)
\* Values a damaged field can hold; JMissing stands for the key being absent.
LoadSamples ==
  {JMissing, JNull, JBool(TRUE), JNum(0), JNum(-1), JNum(5),
   JStr("x"), JStr(""), JArr(<< >>), JEmptyObj}

SessionFields ==
  {"workoutId", "workoutName", "startedAt", "bodyweightKg", "totalPausedMs",
   "pauseStartedAt", "isPaused", "restoredFromAppClose", "sets"}

SetFields ==
  {"id", "workoutExerciseId", "exerciseName", "setNumber", "targetReps",
   "targetWeightKg", "restSeconds", "actualReps", "actualWeightKg"}

\* The payload with element i of sets replaced by item.
WithSet(payload, i, item) ==
  [payload EXCEPT !.sets = JArr([payload.sets.items EXCEPT ![i] = item])]

\* Payloads saveActiveWorkoutSession wrote.
SavedPayloads == {RunningRow, EditedRow}

LoadPayloads ==
  {BadText}
    \cup (LoadSamples \ {JMissing})
    \cup SavedPayloads
    \cup {With(p, f, v) : p \in SavedPayloads, f \in SessionFields, v \in LoadSamples}
    \cup {WithSet(p, i, v) : p \in SavedPayloads, i \in 1..2, v \in LoadSamples \ {JMissing}}
    \cup UNION {{WithSet(p, i, With(p.sets.items[i], f, v)) : f \in SetFields, v \in LoadSamples}
                : p \in SavedPayloads, i \in 1..2}

InitLoad ==
  /\ Launched
  /\ stored \in LoadPayloads
  /\ loadPayload = stored
  /\ loadResult = NotLoaded
  /\ targetArgs = NoArgs
  /\ targetWeight = NotComputed
  /\ buildWorkout = NoArgs
  /\ builtSets = NotComputed
  /\ groupInput = NoArgs
  /\ groupResult = NotComputed
  /\ killed = NotKilled

\* One call of loadActiveWorkoutSession on the stored row.
LoadStoredSession ==
  /\ loadResult = NotLoaded
  /\ loadResult' = loadActiveWorkoutSession(stored)
  /\ UNCHANGED <<now, storeVars, dbVars, tasks, result, countVars, restVars, loadPayload,
                 targetArgs, targetWeight, buildWorkout, builtSets, groupInput, groupResult, killed>>

NextLoad == LoadStoredSession

SpecLoad == InitLoad /\ [][NextLoad]_vars

\* The JSON kind of field f of object j; "undefined" when the key is absent.
KindOf(j, f) == IF j.k = "obj" /\ f \in DOMAIN j THEN j[f].k ELSE "undefined"

\* The kinds the ActiveWorkoutSession and ActiveWorkoutSet types declare.
DeclaredSessionKinds ==
  [workoutId |-> {"str"}, workoutName |-> {"str"}, startedAt |-> {"num"},
   bodyweightKg |-> {"num", "null"}, totalPausedMs |-> {"num"},
   pauseStartedAt |-> {"num", "null"}, isPaused |-> {"bool"},
   restoredFromAppClose |-> {"bool"}, sets |-> {"arr"}]

DeclaredSetKinds ==
  [id |-> {"str"}, workoutExerciseId |-> {"str"}, exerciseName |-> {"str"},
   setNumber |-> {"num"}, targetReps |-> {"num"}, targetWeightKg |-> {"num"},
   restSeconds |-> {"num"}, actualReps |-> {"num"}]

\* The fields without which the payload is rejected: the declared ones less
\* those that have a default (bodyweightKg may be absent; restSeconds and
\* actualWeightKg of a set may be absent or of any type).
RequiredSessionKinds ==
  [DeclaredSessionKinds EXCEPT !.bodyweightKg = {"num", "null", "undefined"}]

RequiredSetKinds ==
  [f \in DOMAIN DeclaredSetKinds \ {"restSeconds"} |-> DeclaredSetKinds[f]]

\* The payload is not JSON, is not an object, or has a field (or a set with a
\* field) whose kind is not among the kinds the table allows.
Mismatch(payload, sessionKinds, setKinds) ==
  \/ payload = BadText
  \/ payload.k # "obj"
  \/ \E f \in DOMAIN sessionKinds : KindOf(payload, f) \notin sessionKinds[f]
  \/ /\ KindOf(payload, "sets") = "arr"
     /\ \E i \in DOMAIN payload.sets.items :
          \/ payload.sets.items[i].k # "obj"
          \/ \E f \in DOMAIN setKinds :
               KindOf(payload.sets.items[i], f) \notin setKinds[f]

\* C10 (amended): loadActiveWorkoutSession never throws, and returns null for
\* every payload that is not JSON or that has a missing or wrongly typed
\* field among those without a default; a payload whose only defects are an
\* absent bodyweightKg or an absent or invalid restSeconds / actualWeightKg
\* is accepted, with null, DEFAULT_REST_SECONDS and targetWeightKg in their
\* places.
C10_LoadRejectsMalformed ==
  loadResult # NotLoaded
    => /\ ~loadResult.threw
       /\ Mismatch(loadPayload, RequiredSessionKinds, RequiredSetKinds)
            => loadResult.value = NoSession
       /\ ~Mismatch(loadPayload, RequiredSessionKinds, RequiredSetKinds)
            => /\ loadResult.value # NoSession
               /\ loadResult.value.bodyweightKg.k \in {"num", "null"}
               /\ \A i \in DOMAIN loadResult.value.sets :
                    LET set == loadResult.value.sets[i]
                        raw == loadPayload.sets.items[i]
                    IN /\ set.restSeconds > 0
                       /\ KindOf(raw, "restSeconds") # "num" => set.restSeconds = DEFAULT_REST_SECONDS
                       /\ KindOf(raw, "actualWeightKg") # "num"
                            => set.actualWeightKg = JNum(set.targetWeightKg)

C10_Witness ==
  /\ loadResult # NotLoaded
  /\ loadPayload.k = "obj"
  /\ KindOf(loadPayload, "sets") = "arr"
  /\ \E i \in DOMAIN loadPayload.sets.items :
       KindOf(loadPayload.sets.items[i], "actualReps") = "str"
  /\ loadResult.value = NoSession

\* C10 (the claim as stated): the load returns null for every payload with a
\* missing or wrongly typed field of the declared session and set types.
C10_LoadRejectsEveryDeclaredField ==
  loadResult # NotLoaded
    => /\ ~loadResult.threw
       /\ Mismatch(loadPayload, DeclaredSessionKinds, DeclaredSetKinds)
            => loadResult.value = NoSession

(***************************************************************************)
(* The session screen over a running session (specification SpecRest):     *)
(* set taps and the notification calls of the rest timer.                  *)
(***************************************************************************)
\* The sessions the screen is opened on: one of each template, just started.
StartedSessions == {NewSession(FindWorkout(SeedWorkouts, w), 0) : w \in WorkoutIds}

\* The same screen a moment later: set 1 of the two-set workout is done, its
\* rest timer is running and its notification (handle 1) is scheduled and
\* stored.
RestingSessions ==
  {[s EXCEPT !.sets[1].actualReps = s.sets[1].targetReps] :
     s \in {x \in StartedSessions : Len(x.sets) > 1}}

InitRest ==
  /\ now = 0
  /\ activeSession \in StartedSessions \cup RestingSessions
  /\ stored = SessionToJSON(activeSession)
  /\ workouts = SeedWorkouts
  /\ hydrated = TRUE
  /\ bootstrapping = FALSE
  /\ mutating = FALSE
  /\ error = NoError
  /\ dbWorkouts = SeedTemplates
  /\ dbSessions = << >>
  /\ dbExercises = SeedExercises
  /\ tasks = {}
  /\ result = Settled("none", "none")
  /\ calls = 0 /\ failures = 0
  /\ IF activeSession \in RestingSessions
     THEN /\ restScheduleToken = 1
          /\ restNotificationId = 1
          /\ activeRestTimer = [setId |-> activeSession.sets[1].id,
                                exerciseName |-> activeSession.sets[1].exerciseName,
                                startedAt |-> 0]
          /\ live = {1}
          /\ handles = (1 :> "stored")
     ELSE /\ restScheduleToken = 0
          /\ restNotificationId = 0
          /\ activeRestTimer = NoTimer
          /\ live = {}
          /\ handles = << >>
  /\ sessionActionError = FALSE
  /\ loadPayload = NoRow
  /\ loadResult = NotLoaded
  /\ targetArgs = NoArgs
  /\ targetWeight = NotComputed
  /\ buildWorkout = NoArgs
  /\ builtSets = NotComputed
  /\ groupInput = NoArgs
  /\ groupResult = NotComputed
  /\ killed = NotKilled

NextRest ==
  \/ \E setEntry \in RenderedSets : handleSetPress(setEntry)
  \/ \E t \in tasks : SaveResolves(t)
  \/ \E t \in tasks : SaveRejects(t)
  \/ \E t \in tasks : CommitSession(t)
  \/ \E t \in tasks : CancelPreviousResolves(t)
  \/ \E t \in tasks : ScheduleResolves(t)
  \/ \E t \in tasks : ScheduleReturnsNull(t)
  \/ \E t \in tasks : CancelStaleResolves(t)
  \/ \E t \in tasks : CancelClearedResolves(t)
  \/ \E t \in tasks : NotificationRejects(t)
  \/ SessionEndedEffect
  \/ \E t \in tasks : CancelEndedResolves(t)
  \/ \E t \in tasks : CancelEndedRejects(t)
  \/ handleFinishSession
  \/ \E t \in tasks : CreateResolves(t)
  \/ \E t \in tasks : ListResolves(t)
  \/ \E t \in tasks : FinishRejects(t)
  \/ \E t \in tasks : FinishCommit(t)
  \/ handleDiscardSession
  \/ \E t \in tasks : ClearResolves(t)
  \/ \E t \in tasks : ClearRejects(t)
  \/ \E t \in tasks : DiscardCommit(t)

SpecRest == InitRest /\ [][NextRest]_vars

\* Every handler has run to its end and no notification call has failed.
RestSettled == tasks = {} /\ failures = 0

\* C4 (the claim as stated): once all pending calls have resolved, at most
\* one scheduled rest notification is live.
C4_AtMostOneLiveNotification ==
  RestSettled => Cardinality(live) <= 1

\* C5: a rest timer overtaken by a newer start before its schedule call
\* resolves never has its handle stored and has it cancelled; when timer 1
\* was overtaken by timer 2 and both calls returned handles, the one live
\* notification at the end is timer 2's, and it is the stored handle.
C5_StaleHandleCancelled ==
  /\ []((/\ RestSettled
         /\ restScheduleToken = 2
         /\ DOMAIN handles = {1, 2}
         /\ handles[1] = "stale")
          => (live = {2} /\ restNotificationId = 2))
  /\ [][\A t \in tasks :
          /\ (ScheduleResolves(t) /\ t.ui.token < restScheduleToken)
               => /\ restNotificationId' = restNotificationId
                  /\ restNotificationId' # t.ui.token
                  /\ \E u \in tasks' : u.pc = "cancelStale" /\ u.ui.handle = t.ui.token
          /\ CancelStaleResolves(t)
               => /\ t.ui.handle \notin live'
                  /\ restNotificationId' # t.ui.handle]_vars

C5_Witness ==
  /\ RestSettled
  /\ restScheduleToken = 2
  /\ DOMAIN handles = {1, 2}
  /\ handles[1] = "stale" /\ handles[2] = "stored"
  /\ live = {2}
  /\ restNotificationId = 2

\* C11 (the claim as stated): whenever a session is active, pauseStartedAt is
\* non-null exactly when isPaused is true.
C11_PauseStampIffPaused ==
  activeSession # NoSession
    => (activeSession.pauseStartedAt # JNull <=> activeSession.isPaused)

\* C12: a tap on a set with actualReps = 0 makes its actualReps targetReps
\* and, once saved, starts the rest timer for that set; a tap on a set with
\* actualReps > 0 lowers actualReps by exactly 1; no other set changes; and
\* no set of the session ever has negative actualReps.
C12_TapCompletesOrDecrements ==
  /\ [](activeSession # NoSession
          => \A i \in 1..Len(activeSession.sets) : activeSession.sets[i].actualReps >= 0)
  /\ [][/\ \A setEntry \in RenderedSets :
             handleSetPress(setEntry)
               => \E u \in tasks' \ tasks :
                    /\ u.kind = "tap"
                    /\ Len(u.next.sets) = Len(activeSession.sets)
                    /\ \A i \in 1..Len(activeSession.sets) :
                         LET before == activeSession.sets[i]
                             after == u.next.sets[i]
                         IN IF before.id # setEntry.id THEN after = before
                            ELSE /\ after.actualReps =
                                      IF before.actualReps = 0 THEN before.targetReps
                                      ELSE before.actualReps - 1
                                 /\ [after EXCEPT !.actualReps = 0]
                                      = [before EXCEPT !.actualReps = 0]
        /\ \A t \in tasks :
             (CommitSession(t) /\ t.ui # NoUi)
               => /\ activeSession' = t.next
                  /\ t.ui.set.actualReps = 0
                       => /\ restScheduleToken' = restScheduleToken + 1
                          /\ activeRestTimer' # NoTimer
                          /\ activeRestTimer'.setId = t.ui.set.id
                          /\ \E u \in tasks' : u.id = t.id
                                               /\ u.pc \in {"cancelPrevious", "scheduling"}
                  /\ t.ui.set.actualReps > 0
                       => /\ activeRestTimer' = NoTimer \/ activeRestTimer' = activeRestTimer
                          /\ ~\E u \in tasks' : u.id = t.id /\ u.pc = "scheduling"]_vars

C12_Witness ==
  /\ activeSession # NoSession
  /\ activeSession.workoutId = "wB"
  /\ calls = 2 /\ tasks = {}
  /\ activeSession.sets[1].actualReps = 0
  /\ restScheduleToken = 2
  /\ activeRestTimer = NoTimer

(***************************************************************************)
(* The elapsed time the session screen shows.                              *)
(***************************************************************************)
\* getElapsedMs(session, now) of the workouts screen.
getElapsedMs(session, t) ==
  LET pausedDelta == IF session.isPaused /\ session.pauseStartedAt # JNull
                     THEN t - session.pauseStartedAt.n
                     ELSE 0
  IN Max(0, t - session.startedAt - session.totalPausedMs - pausedDelta)

\* The values Date.now() takes.
ClockValues == 0..MaxNow

\* now - pauseStartedAt as JavaScript computes it: null counts as 0.
SincePauseStamp(session, t) ==
  IF session.pauseStartedAt = JNull THEN t ELSE t - session.pauseStartedAt.n

ResumeOfStampedPause ==
  /\ activeSession # NoSession
  /\ activeSession.isPaused
  /\ activeSession.pauseStartedAt # JNull
  /\ resumeActiveWorkoutSession

\* C14 (amended): a pause of an unpaused session stamps pauseStartedAt = p,
\* the time of the call; a resume called at time r of a session paused at p
\* computes totalPausedMs + max(0, r - p), pauseStartedAt = null, isPaused =
\* false and restoredFromAppClose = false, changing nothing else; the
\* computed session becomes the active one when its save is through.  With a
\* clock that did not move backwards the increase is exactly r - p.
C14_ResumeAccumulatesPause ==
  [][/\ (activeSession # NoSession /\ ~activeSession.isPaused /\ pauseActiveWorkoutSession)
          => \E u \in tasks' \ tasks :
               /\ u.kind = "pause"
               /\ u.next.pauseStartedAt = JNum(now)
               /\ u.next.totalPausedMs = activeSession.totalPausedMs
     /\ ResumeOfStampedPause
          => \E u \in tasks' \ tasks :
               /\ u.kind = "resume"
               /\ u.next.totalPausedMs =
                    activeSession.totalPausedMs
                      + (IF now >= activeSession.pauseStartedAt.n
                         THEN now - activeSession.pauseStartedAt.n ELSE 0)
               /\ u.next.pauseStartedAt = JNull
               /\ ~u.next.isPaused
               /\ ~u.next.restoredFromAppClose
               /\ u.next = [activeSession EXCEPT !.totalPausedMs = u.next.totalPausedMs,
                                                 !.pauseStartedAt = JNull,
                                                 !.isPaused = FALSE,
                                                 !.restoredFromAppClose = FALSE]
     /\ \A t \in tasks :
          (t.kind \in {"pause", "resume"} /\ CommitSession(t)) => activeSession' = t.next]_vars

C14_Witness ==
  /\ result = Settled("resume", "resolved")
  /\ activeSession # NoSession
  /\ ~activeSession.isPaused
  /\ activeSession.pauseStartedAt = JNull
  /\ ~activeSession.restoredFromAppClose
  /\ activeSession.totalPausedMs = 1

\* C14 (the claim as stated): the resume at time r of a session paused at p
\* increases totalPausedMs by exactly r - p.
C14_ResumeAddsExactDifference ==
  [][ResumeOfStampedPause
       => \E u \in tasks' \ tasks :
            /\ u.kind = "resume"
            /\ u.next.totalPausedMs =
                 activeSession.totalPausedMs + (now - activeSession.pauseStartedAt.n)]_vars

\* C15: pause of an unpaused session computes isPaused = true, pauseStartedAt
\* = now and restoredFromAppClose = false and changes no other field; pause
\* of a paused session and resume of an unpaused session return at once:
\* no session field changes, nothing is written to the store and no save is
\* started.
C15_PauseAndNoOps ==
  [][/\ (activeSession # NoSession /\ ~activeSession.isPaused /\ pauseActiveWorkoutSession)
          => \E u \in tasks' \ tasks :
               /\ u.kind = "pause" /\ u.pc = "saving"
               /\ u.next = [activeSession EXCEPT !.isPaused = TRUE,
                                                 !.pauseStartedAt = JNum(now),
                                                 !.restoredFromAppClose = FALSE]
     /\ (activeSession # NoSession /\ activeSession.isPaused /\ pauseActiveWorkoutSession)
          => /\ result' = Settled("pause", "returned")
             /\ activeSession' = activeSession
             /\ stored' = stored
             /\ tasks' = tasks
     /\ (activeSession # NoSession /\ ~activeSession.isPaused /\ resumeActiveWorkoutSession)
          => /\ result' = Settled("resume", "returned")
             /\ activeSession' = activeSession
             /\ stored' = stored
             /\ tasks' = tasks]_vars

C15_Witness ==
  /\ result = Settled("pause", "returned")
  /\ activeSession # NoSession
  /\ activeSession.isPaused
  /\ activeSession.pauseStartedAt = JNum(0)
  /\ now = 1
  /\ stored = SessionToJSON(activeSession)

\* C16: startWorkoutSession for the workout of the active session returns
\* without error and changes nothing: the session in memory (startedAt, pause
\* fields, bodyweight, every set) and the stored row are as before, and no
\* save is started.
C16_RepeatedStartIsNoOp ==
  [][\A w \in WorkoutIds :
       (activeSession # NoSession /\ activeSession.workoutId = w /\ startWorkoutSession(w))
         => /\ result' = Settled("start", "returned")
            /\ activeSession' = activeSession
            /\ stored' = stored
            /\ tasks' = tasks
            /\ error' = error]_vars

C16_Witness ==
  /\ result = Settled("start", "returned")
  /\ activeSession # NoSession
  /\ activeSession.sets[1].actualReps > 0
  /\ activeSession.startedAt < now
  /\ stored = SessionToJSON(activeSession)

\* C17: discardActiveWorkoutSession deletes the stored row, then removes the
\* session from memory, and no step of it writes a history record.
C17_DiscardWritesNoHistory ==
  [][/\ (activeSession # NoSession /\ discardActiveWorkoutSession)
          => /\ dbSessions' = dbSessions
             /\ \E u \in tasks' \ tasks : u.kind = "discard" /\ u.pc = "clearing"
     /\ \A t \in tasks :
          /\ (t.kind = "discard" /\ ClearResolves(t))
               => /\ stored' = NoRow
                  /\ dbSessions' = dbSessions
                  /\ activeSession' = activeSession
          /\ DiscardCommit(t)
               => /\ activeSession' = NoSession
                  /\ stored' = stored
                  /\ dbSessions' = dbSessions
                  /\ result' = Settled("discard", "resolved")]_vars

C17_Witness ==
  /\ result = Settled("discard", "resolved")
  /\ activeSession = NoSession
  /\ stored = NoRow
  /\ dbSessions = << >>
  /\ hydrated

\* C18 (the claim as stated): setSessionSetCustomReps called with negative
\* reps rejects and changes nothing: no save is started, and the session in
\* memory and the stored row stay as they are.
C18_NegativeRepsRejected ==
  [][\A setId \in SetIdInputs, reps \in CustomRepsInputs :
       (reps < 0 /\ activeSession # NoSession /\ HasSet(activeSession, setId)
          /\ setSessionSetCustomReps(setId, reps))
         => /\ result' = Settled("custom", "rejected")
            /\ tasks' = tasks
            /\ activeSession' = activeSession
            /\ stored' = stored]_vars

MaxStartWeight == 4
MaxIncrement == 3
MaxWeeks == 3

TargetInputs ==
  [weeksCompleted : 0..MaxWeeks,
   startWeightKg : (0 - MaxStartWeight)..MaxStartWeight,
   overloadIncrementKg : 1..MaxIncrement]

InitTarget ==
  /\ Launched
  /\ stored = NoRow
  /\ loadPayload = NoRow
  /\ loadResult = NotLoaded
  /\ targetArgs \in TargetInputs
  /\ targetWeight = NotComputed
  /\ buildWorkout = NoArgs
  /\ builtSets = NotComputed
  /\ groupInput = NoArgs
  /\ groupResult = NotComputed
  /\ killed = NotKilled

\* One call of getTargetWeightKg(workout, exercise).
ComputeTargetWeight ==
  /\ targetWeight = NotComputed
  /\ targetWeight' =
       JNum(getTargetWeightKg(targetArgs.weeksCompleted,
                              [startWeightKg |-> targetArgs.startWeightKg,
                               overloadIncrementKg |-> targetArgs.overloadIncrementKg]))
  /\ UNCHANGED <<now, storeVars, dbVars, tasks, result, countVars, restVars,
                 loadPayload, loadResult, targetArgs, buildWorkout, builtSets,
                 groupInput, groupResult, killed>>

NextTarget == ComputeTargetWeight

SpecTarget == InitTarget /\ [][NextTarget]_vars

\* The start weight with the weekly increment added once per completed week.
RECURSIVE AfterWeeks(_, _, _)
AfterWeeks(startWeightKg, incrementKg, weeks) ==
  IF weeks = 0 THEN startWeightKg
  ELSE AfterWeeks(startWeightKg, incrementKg, weeks - 1) + incrementKg

\* C20: the target weight is the start weight plus the weekly increment once
\* per completed week, for negative start weights too; a negative result is
\* returned as it is, never raised to zero.
C20_TargetWeightLinear ==
  targetWeight # NotComputed
    => /\ targetWeight =
            JNum(AfterWeeks(targetArgs.startWeightKg, targetArgs.overloadIncrementKg,
                            targetArgs.weeksCompleted))
       /\ (targetArgs.startWeightKg
             + targetArgs.overloadIncrementKg * targetArgs.weeksCompleted < 0)
            => targetWeight.n < 0

C20_Witness ==
  /\ targetWeight # NotComputed
  /\ targetArgs.startWeightKg = 0 - MaxStartWeight
  /\ targetArgs.weeksCompleted = 1
  /\ targetArgs.overloadIncrementKg = 1
  /\ targetWeight = JNum(1 - MaxStartWeight)

(***************************************************************************)
(* The workout templates: applyWeeklyOverload and editWorkout, next to the *)
(* session transitions (specification SpecPlan).                           *)
(***************************************************************************)
\* UPDATE workouts SET weeks_completed = weeks_completed + 1, on every row.
advanceWorkoutWeekEveryRow(templates, workoutId) ==
  [w \in DOMAIN templates |-> templates[w] + 1]

\* advanceWorkoutWeek: UPDATE workouts SET weeks_completed =
\* weeks_completed + 1 WHERE id = workoutId.
advanceWorkoutWeek(templates, workoutId) ==
  [w \in DOMAIN templates |-> IF w = workoutId THEN templates[w] + 1 ELSE templates[w]]

\* createId('exercise') of the row inserted at index by call number callId.
ExerciseRowId(callId, index) == "ex" \o ToString(callId) \o "-" \o ToString(index)

\* updateWorkout: the exercise rows of the workout are deleted and the
\* input's exercises inserted with new ids, sort_order = index.
updateWorkout(exercises, workoutId, input, callId) ==
  [w \in DOMAIN exercises |->
     IF w # workoutId THEN exercises[w]
     ELSE [i \in 1..Len(input) |->
             [id |-> ExerciseRowId(callId, i),
              name |-> input[i].name,
              sets |-> input[i].sets,
              reps |-> input[i].reps,
              restSeconds |-> input[i].restSeconds,
              startWeightKg |-> input[i].startWeightKg,
              overloadIncrementKg |-> input[i].overloadIncrementKg]]]

\* The forms editWorkout is called with: one exercise changed in every
\* field (rest seconds left at 0), or no exercise at all.
EditInputs ==
  {<<[name |-> "Row", sets |-> 1, reps |-> 3, restSeconds |-> 0,
      startWeightKg |-> 20, overloadIncrementKg |-> 1]>>,
   << >>}

\* A template call up to its first await: set({ mutating: true, error: null }).
TemplateCall(kind, pc, workoutId, ui) ==
  /\ CanCall
  /\ ~mutating
  /\ mutating' = TRUE
  /\ error' = NoError
  /\ tasks' = tasks \cup {Task(kind, pc, workoutId, NoSession, EmptyWorkouts, ui)}
  /\ calls' = calls + 1
  /\ UNCHANGED <<now, activeSession, workouts, hydrated, bootstrapping, dbVars, result,
                 failures, restVars, loadVars>>

applyWeeklyOverload(workoutId) == TemplateCall("overload", "advancing", workoutId, NoUi)

editWorkout(workoutId, input) ==
  TemplateCall("edit", "updating", workoutId, [exercises |-> input])

\* await advanceWorkoutWeek(workoutId) resolves.
AdvanceResolves(t) ==
  /\ t \in tasks /\ t.kind = "overload" /\ t.pc = "advancing"
  /\ dbWorkouts' = advanceWorkoutWeek(dbWorkouts, t.arg)
  /\ tasks' = (tasks \ {t}) \cup {[t EXCEPT !.pc = "listing"]}
  /\ UNCHANGED <<now, storeVars, stored, dbSessions, dbExercises, result, countVars,
                 restVars, loadVars>>

\* await updateWorkout(input) resolves.
UpdateResolves(t) ==
  /\ t \in tasks /\ t.kind = "edit" /\ t.pc = "updating"
  /\ dbExercises' = updateWorkout(dbExercises, t.arg, t.ui.exercises, t.id)
  /\ tasks' = (tasks \ {t}) \cup {[t EXCEPT !.pc = "listing"]}
  /\ UNCHANGED <<now, storeVars, stored, dbWorkouts, dbSessions, result, countVars,
                 restVars, loadVars>>

\* await listWorkouts() of a template call resolves.
TemplateListResolves(t) ==
  /\ t \in tasks /\ t.kind \in {"overload", "edit"} /\ t.pc = "listing"
  /\ tasks' = (tasks \ {t}) \cup
       {[t EXCEPT !.pc = "listed", !.wk = listWorkouts(dbWorkouts, dbSessions, dbExercises)]}
  /\ UNCHANGED <<now, storeVars, dbVars, result, countVars, restVars, loadVars>>

\* A template change that rebuilds the sets of the active session.
SessionRebuiltAfterTemplateChange(session, wk) ==
  IF session = NoSession \/ session.workoutId \notin DOMAIN wk.weeks THEN session
  ELSE [session EXCEPT !.sets = buildSessionSets(FindWorkout(wk, session.workoutId))]

\* set({ workouts, error: null }) of a template call: activeSession is not
\* among the keys set.
SessionAfterTemplateChange(session, wk) == session

\* set({ workouts, error: null }) and the finally of a template call.
TemplateCommit(t) ==
  /\ t \in tasks /\ t.kind \in {"overload", "edit"} /\ t.pc = "listed"
  /\ tasks' = tasks \ {t}
  /\ workouts' = t.wk
  /\ activeSession' = SessionAfterTemplateChange(activeSession, t.wk)
  /\ error' = NoError
  /\ mutating' = FALSE
  /\ result' = Settled(t.kind, "resolved")
  /\ UNCHANGED <<now, hydrated, bootstrapping, dbVars, countVars, restVars, loadVars>>

\* An await of a template call rejects: the catch sets the error and
\* rethrows, the finally clears mutating.
TemplateRejects(t) ==
  /\ t \in tasks /\ t.kind \in {"overload", "edit"}
  /\ t.pc \in {"advancing", "updating", "listing"}
  /\ CanFail
  /\ failures' = failures + 1
  /\ tasks' = tasks \ {t}
  /\ error' = "template call failed"
  /\ mutating' = FALSE
  /\ result' = Settled(t.kind, "rejected")
  /\ UNCHANGED <<now, activeSession, workouts, hydrated, bootstrapping, dbVars, calls,
                 restVars, loadVars>>

\* The app is up: hydrated on the seeded templates, with no session or with
\* one just started.
InitPlan ==
  /\ now = 0
  /\ activeSession \in StartedSessions \cup {NoSession}
  /\ stored = IF activeSession = NoSession THEN NoRow ELSE SessionToJSON(activeSession)
  /\ workouts = SeedWorkouts
  /\ hydrated = TRUE
  /\ bootstrapping = FALSE
  /\ mutating = FALSE
  /\ error = NoError
  /\ dbWorkouts = SeedTemplates
  /\ dbSessions = << >>
  /\ dbExercises = SeedExercises
  /\ tasks = {}
  /\ result = Settled("none", "none")
  /\ calls = 0 /\ failures = 0
  /\ restScheduleToken = 0
  /\ restNotificationId = 0
  /\ activeRestTimer = NoTimer
  /\ sessionActionError = FALSE
  /\ live = {}
  /\ handles = << >>
  /\ loadPayload = NoRow
  /\ loadResult = NotLoaded
  /\ targetArgs = NoArgs
  /\ targetWeight = NotComputed
  /\ buildWorkout = NoArgs
  /\ builtSets = NotComputed
  /\ groupInput = NoArgs
  /\ groupResult = NotComputed
  /\ killed = NotKilled

\* The clock stands still here: no template call reads it, and what a
\* session keeps of its template does not depend on it.
NextPlan ==
  \/ \E w \in WorkoutIds : applyWeeklyOverload(w)
  \/ \E w \in WorkoutIds, input \in EditInputs : editWorkout(w, input)
  \/ \E t \in tasks : AdvanceResolves(t)
  \/ \E t \in tasks : UpdateResolves(t)
  \/ \E t \in tasks : TemplateListResolves(t)
  \/ \E t \in tasks : TemplateCommit(t)
  \/ \E t \in tasks : TemplateRejects(t)
  \/ \E w \in WorkoutIds : startWorkoutSession(w)
  \/ \E b \in BodyweightInputs : setActiveWorkoutBodyweight(b)
  \/ pauseActiveWorkoutSession
  \/ resumeActiveWorkoutSession
  \/ \E setId \in SetIdInputs : decrementOrCompleteSessionSet(setId)
  \/ \E setEntry \in RenderedSets, reps \in CustomRepsInputs : saveCustomSetValues(setEntry, reps)
  \/ \E t \in tasks : SaveResolves(t)
  \/ \E t \in tasks : SaveRejects(t)
  \/ \E t \in tasks : CommitSession(t)
  \/ finishActiveWorkoutSession
  \/ \E t \in tasks : CreateResolves(t)
  \/ \E t \in tasks : ListResolves(t)
  \/ \E t \in tasks : FinishRejects(t)
  \/ \E t \in tasks : FinishCommit(t)
  \/ discardActiveWorkoutSession
  \/ \E t \in tasks : ClearResolves(t)
  \/ \E t \in tasks : ClearRejects(t)
  \/ \E t \in tasks : DiscardCommit(t)

SpecPlan == InitPlan /\ [][NextPlan]_vars

\* The target weights of the exercises of workout w in the tables.
TargetWeights(templates, exercises, w) ==
  [i \in 1..Len(exercises[w]) |-> getTargetWeightKg(templates[w], exercises[w][i])]

\* C21: the update of applyWeeklyOverload(w) adds exactly 1 to the
\* weeks_completed of w, leaves every other template and every exercise row
\* as it was, and so raises the target weight of each exercise of w by that
\* exercise's increment; the call then publishes the weeks of the table.
\* Nothing else changes weeks_completed, and no template has been advanced
\* more often than calls were made.
C21_OverloadAddsOneWeek ==
  /\ [](\A w \in WorkoutIds :
          dbWorkouts[w] >= SeedTemplates[w] /\ dbWorkouts[w] - SeedTemplates[w] <= calls)
  /\ [][/\ \A t \in tasks :
            /\ AdvanceResolves(t)
                 => /\ dbWorkouts'[t.arg] = dbWorkouts[t.arg] + 1
                    /\ \A w \in WorkoutIds \ {t.arg} : dbWorkouts'[w] = dbWorkouts[w]
                    /\ dbExercises' = dbExercises
                    /\ \A i \in 1..Len(dbExercises[t.arg]) :
                         TargetWeights(dbWorkouts', dbExercises', t.arg)[i]
                           = TargetWeights(dbWorkouts, dbExercises, t.arg)[i]
                               + dbExercises[t.arg][i].overloadIncrementKg
            /\ (t.kind = "overload" /\ TemplateCommit(t))
                 => workouts'.weeks = dbWorkouts
        /\ (dbWorkouts' # dbWorkouts) => (\E t \in tasks : AdvanceResolves(t))]_vars

C21_Witness ==
  /\ result = Settled("overload", "resolved")
  /\ calls = 2 /\ tasks = {}
  /\ dbWorkouts["wA"] = SeedTemplates["wA"] + 2
  /\ dbWorkouts["wB"] = SeedTemplates["wB"]
  /\ workouts.weeks = dbWorkouts
  /\ TargetWeights(dbWorkouts, dbExercises, "wA")[1] = 1

\* What a session keeps of the template it was started from.
FrozenPart(session) ==
  [i \in 1..Len(session.sets) |->
     [id |-> session.sets[i].id,
      workoutExerciseId |-> session.sets[i].workoutExerciseId,
      exerciseName |-> session.sets[i].exerciseName,
      setNumber |-> session.sets[i].setNumber,
      targetReps |-> session.sets[i].targetReps,
      targetWeightKg |-> session.sets[i].targetWeightKg,
      restSeconds |-> session.sets[i].restSeconds]]

\* C23: no step of applyWeeklyOverload or editWorkout changes the active
\* session or the stored row, and every transition on the active session
\* (bodyweight, pause, resume, tap, custom value) computes a session with the
\* same sets in the same order, each with the targetWeightKg, targetReps,
\* restSeconds and setNumber it had; that session is what gets committed.
C23_SessionSetsFrozen ==
  [][/\ \A t \in tasks :
          /\ (t.kind \in {"overload", "edit"} /\ (\E u \in tasks' : u.id = t.id /\ u # t))
               => (activeSession' = activeSession /\ stored' = stored)
          /\ TemplateCommit(t) => (activeSession' = activeSession /\ stored' = stored)
          /\ (t.kind \in TransitionKinds /\ CommitSession(t)) => activeSession' = t.next
     /\ \A u \in tasks' \ tasks :
          (u.kind \in TransitionKinds \ {"start"} /\ u.pc = "saving")
            => FrozenPart(u.next) = FrozenPart(activeSession)]_vars

C23_Witness ==
  /\ activeSession # NoSession
  /\ activeSession.workoutId = "wA"
  /\ result = Settled("tap", "resolved")
  /\ workouts.weeks["wA"] = SeedTemplates["wA"] + 1
  /\ activeSession.sets[1].targetWeightKg = SeedSession.sets[1].targetWeightKg
  /\ activeSession.sets[1].actualReps > 0
  /\ stored = SessionToJSON(activeSession)

(***************************************************************************)
(* buildSessionSets on its own (specification SpecBuild): a workout with   *)
(* up to MaxExercises exercises of up to MaxSets sets each.                *)
(***************************************************************************)
MaxExercises == 2
MaxSets == 2

\* What varies between the exercises handed in: the number of sets and the
\* start weight (an assisted exercise starts below zero).
ExerciseShapes == [sets : 0..MaxSets, startWeightKg : {-5, 10}]

\* The exercises of a workout as listWorkouts returns them, in sort order.
ExerciseList(shapes) ==
  [i \in 1..Len(shapes) |->
     [id |-> "e" \o ToString(i),
      name |-> "Exercise " \o ToString(i),
      sets |-> shapes[i].sets,
      reps |-> 5,
      restSeconds |-> 60 * i,
      startWeightKg |-> shapes[i].startWeightKg,
      overloadIncrementKg |-> 2]]

BuildInputs ==
  {[id |-> "wA", name |-> WorkoutName("wA"), weeksCompleted |-> weeks,
    exercises |-> ExerciseList(shapes)] :
     weeks \in 0..MaxWeeks,
     shapes \in UNION {[1..n -> ExerciseShapes] : n \in 0..MaxExercises}}

InitBuild ==
  /\ Launched
  /\ stored = NoRow
  /\ loadPayload = NoRow
  /\ loadResult = NotLoaded
  /\ targetArgs = NoArgs
  /\ targetWeight = NotComputed
  /\ buildWorkout \in BuildInputs
  /\ builtSets = NotComputed
  /\ groupInput = NoArgs
  /\ groupResult = NotComputed
  /\ killed = NotKilled

\* One call of buildSessionSets(workout).
BuildSets ==
  /\ builtSets = NotComputed
  /\ builtSets' = Returned(buildSessionSets(buildWorkout))
  /\ UNCHANGED <<now, storeVars, dbVars, tasks, result, countVars, restVars,
                 loadPayload, loadResult, targetArgs, targetWeight, buildWorkout,
                 groupInput, groupResult, killed>>

NextBuild == BuildSets

SpecBuild == InitBuild /\ [][NextBuild]_vars

\* The number of sets of the first n exercises.
RECURSIVE SetsOfFirst(_, _)
SetsOfFirst(exercises, n) ==
  IF n = 0 THEN 0 ELSE SetsOfFirst(exercises, n - 1) + exercises[n].sets

\* The list holds, for each exercise in order, its sets numbered 1..sets in
\* ascending order, with the exercise's id, name, reps, rest and target
\* weight and no reps done; and nothing else.
BuiltInOrder(workout, sets) ==
  /\ Len(sets) = SetsOfFirst(workout.exercises, Len(workout.exercises))
  /\ \A e \in 1..Len(workout.exercises) :
       \A n \in 1..workout.exercises[e].sets :
         LET set == sets[SetsOfFirst(workout.exercises, e - 1) + n]
             exercise == workout.exercises[e]
         IN /\ set.workoutExerciseId = exercise.id
            /\ set.exerciseName = exercise.name
            /\ set.setNumber = n
            /\ set.targetReps = exercise.reps
            /\ set.restSeconds = exercise.restSeconds
            /\ set.targetWeightKg =
                 exercise.startWeightKg + exercise.overloadIncrementKg * workout.weeksCompleted
            /\ set.actualReps = 0

\* C22 (the claim as stated): buildSessionSets emits, per exercise in sort
\* order, exactly its sets numbered 1..sets, each with the exercise's target
\* weight, actualReps = 0 and actualWeightKg = targetWeightKg; a workout
\* without exercises gives the empty list.
C22_BuildEmitsSetsInOrder ==
  builtSets # NotComputed
    => /\ BuiltInOrder(buildWorkout, builtSets.value)
       /\ buildWorkout.exercises = << >> => builtSets.value = << >>
       /\ \A i \in 1..Len(builtSets.value) :
            builtSets.value[i].actualWeightKg = JNum(builtSets.value[i].targetWeightKg)

\* What holds of the list apart from actualWeightKg.
C22_BuildEmitsSetsWithoutActualWeight ==
  builtSets # NotComputed
    => /\ BuiltInOrder(buildWorkout, builtSets.value)
       /\ buildWorkout.exercises = << >> => builtSets.value = << >>
       /\ \A i \in 1..Len(builtSets.value) : builtSets.value[i].actualWeightKg = JMissing

(***************************************************************************)
(* Save and load of the active session (specification Spec).               *)
(***************************************************************************)
\* Every set of the session has its actualWeightKg.
HasActualWeights(session) ==
  \A i \in 1..Len(session.sets) : session.sets[i].actualWeightKg # JMissing

\* C24 (the claim as stated): whenever saveActiveWorkoutSession(s) has
\* written the row, loadActiveWorkoutSession returns a session equal to s,
\* with the same keys and values for the session and for each set; and
\* recovery hands a stored session that is paused to the store as loaded.
C24_LoadReturnsWhatWasSaved ==
  [][\A t \in tasks :
       /\ SaveResolves(t) => loadActiveWorkoutSession(stored').value = t.next
       /\ (BootstrapLoaded(t) /\ StoredSession # NoSession
             /\ ~IsOrphan(StoredSession, listWorkouts(dbWorkouts, dbSessions, dbExercises))
             /\ StoredSession.isPaused)
            => activeSession' = StoredSession]_vars

\* What holds of save and load: the round trip is exact for a session whose
\* sets all carry actualWeightKg, and otherwise differs in that key alone.
C24_LoadFillsActualWeight ==
  [][\A t \in tasks :
       SaveResolves(t)
         => LET loaded == loadActiveWorkoutSession(stored').value
            IN /\ loaded # NoSession
               /\ HasActualWeights(t.next) => loaded = t.next
               /\ [loaded EXCEPT !.sets = t.next.sets] = t.next
               /\ Len(loaded.sets) = Len(t.next.sets)
               /\ \A i \in 1..Len(loaded.sets) :
                    /\ [loaded.sets[i] EXCEPT !.actualWeightKg = JMissing]
                         = [t.next.sets[i] EXCEPT !.actualWeightKg = JMissing]
                    /\ t.next.sets[i].actualWeightKg = JMissing
                         => loaded.sets[i].actualWeightKg = JNum(loaded.sets[i].targetWeightKg)]_vars

(***************************************************************************)
(* The session screen (specification SpecRest), continued.                 *)
(***************************************************************************)
\* C25 (the claim as stated): when a cancel or schedule call of the
\* notification capability rejects, no session error is shown, a rest timer
\* being started still gets its notification scheduled, and a finish or
\* discard handler goes on to its store call.
C25_NotificationFailureNotVisible ==
  [][\A t \in tasks :
       NotificationRejects(t)
         => /\ sessionActionError' = sessionActionError
            /\ t.pc = "cancelPrevious"
                 => \E u \in tasks' : u.id = t.id /\ u.pc = "scheduling"
            /\ (t.pc = "cancelCleared" /\ t.kind \in {"finish", "discard"})
                 => \/ \E u \in tasks' : u.id = t.id /\ u.pc \in {"creating", "clearing"}
                    \/ result' = Settled(t.kind, "returned")]_vars

\* The set a running rest timer belongs to; "" when none is running.
RunningTimerSet == IF activeRestTimer = NoTimer THEN "" ELSE activeRestTimer.setId

\* C26 (the claim as stated): when the tap that has just been saved lowered a
\* set and the running rest timer belongs to that set, the timer is
\* cancelled; when it lowered a set and the running timer belongs to another
\* set (or none runs), timer and stored notification stay as they are; a tap
\* that completed a set leaves a timer running for that set.
C26_DecrementCancelsOwnTimer ==
  [][\A t \in tasks :
       (t.kind = "tap" /\ IsPressed(t) /\ CommitSession(t))
         => /\ (t.ui.set.actualReps > 0 /\ RunningTimerSet = t.ui.set.id)
                 => /\ activeRestTimer' = NoTimer
                    /\ restNotificationId' = 0
            /\ (t.ui.set.actualReps > 0 /\ RunningTimerSet # t.ui.set.id)
                 => /\ activeRestTimer' = activeRestTimer
                    /\ restNotificationId' = restNotificationId
                    /\ restScheduleToken' = restScheduleToken
            /\ t.ui.set.actualReps = 0
                 => /\ activeRestTimer' # NoTimer
                    /\ activeRestTimer'.setId = t.ui.set.id]_vars

\* C28 (the claim as stated): the session a tap commits is the tap applied
\* to the session that is active at the commit, so that no tap commits over
\* a session another transition has replaced since the tap read it; the
\* commit of a tap on one set keeps what earlier taps did to the other sets.
C28_TransitionsSerialized ==
  [][\A t \in tasks :
       (t.kind = "tap" /\ CommitSession(t))
         => /\ activeSession' =
                 [activeSession EXCEPT !.sets = TappedSets(activeSession.sets, t.arg)]
            /\ \A i \in 1..Len(activeSession.sets) :
                 activeSession.sets[i].id # t.arg
                   => activeSession'.sets[i] = activeSession.sets[i]]_vars

(***************************************************************************)
(* groupActiveSetsByExercise on its own (specification SpecGroup): a list  *)
(* of up to MaxGroupInput sets of two exercises, in any order.             *)
(***************************************************************************)
MaxGroupInput == 3

\* sets.forEach(...): the groups by exerciseName, in the order the names were
\* first seen, each with the target weight and rest of its first set and its
\* sets in input order.
RECURSIVE GroupsInInputOrder(_, _)
GroupsInInputOrder(groups, sets) ==
  IF sets = << >> THEN groups
  ELSE LET setEntry == Head(sets)
           at == {g \in 1..Len(groups) : groups[g].exerciseName = setEntry.exerciseName}
       IN IF at # {}
          THEN GroupsInInputOrder(
                 [g \in 1..Len(groups) |->
                    IF g \in at THEN [groups[g] EXCEPT !.sets = Append(@, setEntry)]
                    ELSE groups[g]],
                 Tail(sets))
          ELSE GroupsInInputOrder(
                 Append(groups, [exerciseName |-> setEntry.exerciseName,
                                 targetWeightKg |-> setEntry.targetWeightKg,
                                 restSeconds |-> setEntry.restSeconds,
                                 sets |-> <<setEntry>>]),
                 Tail(sets))

\* The insertion of setEntry behind the sets that do not come after it.
RECURSIVE InsertBySetNumber(_, _)
InsertBySetNumber(sorted, setEntry) ==
  IF sorted = << >> THEN <<setEntry>>
  ELSE IF Head(sorted).setNumber > setEntry.setNumber THEN <<setEntry>> \o sorted
  ELSE <<Head(sorted)>> \o InsertBySetNumber(Tail(sorted), setEntry)

\* A group whose sets stay in input order.
SetsInInputOrder(sets) == sets

\* [...sets].sort((a, b) => a.setNumber - b.setNumber): a stable sort.
RECURSIVE SortedBySetNumber(_)
SortedBySetNumber(sets) ==
  IF sets = << >> THEN << >>
  ELSE InsertBySetNumber(SortedBySetNumber(SubSeq(sets, 1, Len(sets) - 1)), sets[Len(sets)])

groupActiveSetsByExercise(sets) ==
  LET groups == GroupsInInputOrder(<< >>, sets)
  IN [g \in 1..Len(groups) |-> [groups[g] EXCEPT !.sets = SortedBySetNumber(@)]]

GroupNames == {"Pull-up", "Squat"}

\* What varies between the sets handed in.
GroupShapes == [exerciseName : GroupNames, setNumber : 1..2]

\* The list of sets with those shapes: ids are unique, and the target weight
\* and rest differ from set to set.
GroupList(shapes) ==
  [i \in 1..Len(shapes) |->
     [id |-> "set" \o ToString(i),
      workoutExerciseId |-> shapes[i].exerciseName,
      exerciseName |-> shapes[i].exerciseName,
      setNumber |-> shapes[i].setNumber,
      targetReps |-> 5,
      targetWeightKg |-> 10 * i,
      restSeconds |-> 30 * i,
      actualReps |-> 0,
      actualWeightKg |-> JNum(10 * i)]]

GroupInputs == {GroupList(shapes) : shapes \in UNION {[1..n -> GroupShapes] : n \in 0..MaxGroupInput}}

InitGroup ==
  /\ Launched
  /\ stored = NoRow
  /\ loadPayload = NoRow
  /\ loadResult = NotLoaded
  /\ targetArgs = NoArgs
  /\ targetWeight = NotComputed
  /\ buildWorkout = NoArgs
  /\ builtSets = NotComputed
  /\ groupInput \in {Returned(sets) : sets \in GroupInputs}
  /\ groupResult = NotComputed
  /\ killed = NotKilled

\* One call of groupActiveSetsByExercise(sets).
GroupSets ==
  /\ groupResult = NotComputed
  /\ groupResult' = Returned(groupActiveSetsByExercise(groupInput.value))
  /\ UNCHANGED <<now, storeVars, dbVars, tasks, result, countVars, restVars,
                 loadPayload, loadResult, targetArgs, targetWeight, buildWorkout, builtSets,
                 groupInput, killed>>

NextGroup == GroupSets

SpecGroup == InitGroup /\ [][NextGroup]_vars

\* The position in the input of the first set with that exercise name.
FirstSeen(sets, exerciseName) ==
  CHOOSE i \in 1..Len(sets) :
    /\ sets[i].exerciseName = exerciseName
    /\ \A j \in 1..(i - 1) : sets[j].exerciseName # exerciseName

\* C27: the groups partition the input: every input set is in exactly one
\* place of exactly one group, the group of its exercise name, and the
\* groups hold nothing else; groups come in the order in which their
\* exercise was first seen and carry the target weight and rest of that first
\* set; within a group setNumber never decreases.
C27_GroupsPartitionSets ==
  groupResult # NotComputed
    => LET sets == groupInput.value
           groups == groupResult.value
           places == {<<g, n>> \in (1..Len(groups)) \X (1..Len(sets)) : n <= Len(groups[g].sets)}
       IN /\ \A i \in 1..Len(sets) :
               Cardinality({p \in places : groups[p[1]].sets[p[2]] = sets[i]}) = 1
          /\ Cardinality(places) = Len(sets)
          /\ \A g \in 1..Len(groups) :
               /\ groups[g].sets # << >>
               /\ \A n \in 1..Len(groups[g].sets) :
                    groups[g].sets[n].exerciseName = groups[g].exerciseName
               /\ \A n, m \in 1..Len(groups[g].sets) :
                    n < m => groups[g].sets[n].setNumber <= groups[g].sets[m].setNumber
               /\ groups[g].targetWeightKg
                    = sets[FirstSeen(sets, groups[g].exerciseName)].targetWeightKg
               /\ groups[g].restSeconds
                    = sets[FirstSeen(sets, groups[g].exerciseName)].restSeconds
          /\ \A g, h \in 1..Len(groups) :
               g < h => FirstSeen(sets, groups[g].exerciseName)
                          < FirstSeen(sets, groups[h].exerciseName)

C27_Witness ==
  /\ groupResult # NotComputed
  /\ Len(groupInput.value) = 3
  /\ groupInput.value[1].exerciseName = "Squat" /\ groupInput.value[1].setNumber = 2
  /\ groupInput.value[2].exerciseName = "Pull-up"
  /\ groupInput.value[3].exerciseName = "Squat" /\ groupInput.value[3].setNumber = 1
  /\ Len(groupResult.value) = 2
  /\ groupResult.value[1].exerciseName = "Squat"
  /\ groupResult.value[1].sets = <<groupInput.value[3], groupInput.value[1]>>
  /\ groupResult.value[2].sets = <<groupInput.value[2]>>

\* The notification calls of the rest timer still in flight.
NotificationPcs == {"cancelPrevious", "scheduling", "cancelStale", "cancelCleared"}

\* C29: the token never decreases; it changes only in a step that starts or
\* clears the rest timer (a saved tap going on to startRestTimer or
\* clearRestTimer, a finish or discard press), and then by exactly one; the
\* start remembers the new token.  A schedule call that resolves with a
\* handle while the token is no longer the one it remembered leaves the
\* stored handle as it is and goes on to cancel its own handle, which is
\* gone from the scheduled notifications once that cancel resolves; a handle
\* found stale is never the stored one.
C29_TokenGuardsStoredHandle ==
  /\ [](\A h \in DOMAIN handles : handles[h] = "stale" => restNotificationId # h)
  /\ [][/\ restScheduleToken' >= restScheduleToken
        /\ restScheduleToken' # restScheduleToken
             => /\ restScheduleToken' = restScheduleToken + 1
                /\ \/ handleFinishSession
                   \/ handleDiscardSession
                   \/ \E t \in tasks :
                        /\ t.kind = "tap" /\ IsPressed(t) /\ CommitSession(t)
                        /\ \/ t.ui.set.actualReps = 0
                           \/ t.ui.timerSet = t.ui.set.id
        /\ \A t \in tasks :
             /\ (t.kind = "tap" /\ IsPressed(t) /\ CommitSession(t) /\ t.ui.set.actualReps = 0)
                  => /\ restScheduleToken' = restScheduleToken + 1
                     /\ \E u \in tasks' : u.id = t.id /\ u.ui.token = restScheduleToken'
             /\ (t.kind = "tap" /\ IsPressed(t) /\ CommitSession(t) /\ t.ui.set.actualReps > 0
                   /\ t.ui.timerSet = t.ui.set.id)
                  => restScheduleToken' = restScheduleToken + 1
             /\ (ScheduleResolves(t) /\ t.ui.token # restScheduleToken)
                  => /\ restNotificationId' = restNotificationId
                     /\ restNotificationId' # t.ui.token
                     /\ handles'[t.ui.token] = "stale"
                     /\ \E u \in tasks' : u.id = t.id /\ u.pc = "cancelStale"
                                          /\ u.ui.handle = t.ui.token
             /\ (ScheduleResolves(t) /\ t.ui.token = restScheduleToken)
                  => restNotificationId' = t.ui.token
             /\ CancelStaleResolves(t) => t.ui.handle \notin live'
        /\ (handleFinishSession \/ handleDiscardSession)
             => restScheduleToken' = restScheduleToken + 1]_vars

C29_Witness ==
  /\ restScheduleToken = 3
  /\ 2 \in DOMAIN handles
  /\ handles[2] = "stale"
  /\ live = {}
  /\ restNotificationId = 0
  /\ activeRestTimer = NoTimer
  /\ ~\E t \in tasks : t.pc \in NotificationPcs

(***************************************************************************)
(* The app is killed and launched again (specification SpecKill).  A kill  *)
(* takes the process with everything in memory and every call in flight;   *)
(* the tables stay as the statements that had run left them, each          *)
(* statement being applied whole or not at all.                            *)
(***************************************************************************)
\* The transitions between their call and their set(...).
TransitionsInFlight ==
  {t \in tasks : t.kind \in TransitionKinds /\ t.pc \in {"saving", "saved"}}

\* The session each call in flight is about to leave: the nextSession of a
\* transition, none for a finish or a discard.
OutcomesInFlight ==
  {t.next : t \in TransitionsInFlight}
    \cup {NoSession : t \in {u \in tasks : u.kind \in {"finish", "discard"}}}

\* What the kill interrupts: the in-memory session, the outcome of every
\* call in flight, the row of the table and the clock at that moment.  A
\* kill before bootstrap has put anything in memory interrupts nothing new.
KillRecord ==
  IF ~hydrated THEN killed
  ELSE [kind |-> IF TransitionsInFlight # {} THEN "transition"
                 ELSE IF OutcomesInFlight # {} THEN "ending"
                 ELSE "idle",
        pre |-> activeSession,
        posts |-> IF OutcomesInFlight # {} THEN OutcomesInFlight ELSE {activeSession},
        row |-> stored,
        at |-> now]

\* The store and the screen state start over; the notifications of the run
\* that was killed are not followed any further.
Kill ==
  /\ hydrated \/ tasks # {} \/ error # NoError
  /\ killed' = KillRecord
  /\ activeSession' = NoSession
  /\ workouts' = EmptyWorkouts
  /\ hydrated' = FALSE
  /\ bootstrapping' = FALSE
  /\ mutating' = FALSE
  /\ error' = NoError
  /\ tasks' = {}
  /\ result' = Settled("none", "none")
  /\ restScheduleToken' = 0
  /\ restNotificationId' = 0
  /\ activeRestTimer' = NoTimer
  /\ sessionActionError' = FALSE
  /\ live' = {}
  /\ handles' = << >>
  /\ UNCHANGED <<now, dbVars, countVars, loadPayload, loadResult,
                 targetArgs, targetWeight, buildWorkout, builtSets, groupInput, groupResult>>

\* The session screen as in SpecRest, the clock, the kill, and the
\* bootstrap of the next launch.
NextKill ==
  \/ Tick
  \/ \E setEntry \in RenderedSets : handleSetPress(setEntry)
  \/ \E t \in tasks : SaveResolves(t)
  \/ \E t \in tasks : SaveRejects(t)
  \/ \E t \in tasks : CommitSession(t)
  \/ \E t \in tasks : CancelPreviousResolves(t)
  \/ \E t \in tasks : ScheduleResolves(t)
  \/ \E t \in tasks : ScheduleReturnsNull(t)
  \/ \E t \in tasks : CancelStaleResolves(t)
  \/ \E t \in tasks : CancelClearedResolves(t)
  \/ \E t \in tasks : NotificationRejects(t)
  \/ Kill
  \/ BootstrapCall
  \/ \E t \in tasks : BootstrapLoaded(t)
  \/ \E t \in tasks : BootstrapLoadFails(t)
  \/ \E t \in tasks : BootstrapCommit(t)

SpecKill == InitRest /\ [][NextKill]_vars

\* recovered is what a cold start makes of session, had session been the one
\* in the table: the session as it is read back, force-paused and marked
\* restored when it was running.
Recovers(session, recovered) ==
  IF session = NoSession THEN recovered = NoSession
  ELSE LET read == loadActiveWorkoutSession(SessionToJSON(session)).value
       IN IF read.isPaused THEN recovered = read
          ELSE /\ recovered # NoSession
               /\ recovered.isPaused
               /\ recovered.restoredFromAppClose
               /\ recovered.pauseStartedAt # JNull
               /\ [recovered EXCEPT !.isPaused = FALSE,
                                    !.pauseStartedAt = read.pauseStartedAt,
                                    !.restoredFromAppClose = read.restoredFromAppClose] = read

C31_RecoveryExcludesClosedGap ==
  (/\ hydrated
   /\ killed.kind # "none"
   /\ killed.pre # NoSession
   /\ ~killed.pre.isPaused
   /\ activeSession # NoSession
   /\ activeSession.restoredFromAppClose
   /\ activeSession.isPaused
   /\ activeSession.pauseStartedAt # JNull
   /\ activeSession.pauseStartedAt.n >= killed.at
   /\ now >= activeSession.pauseStartedAt.n)
    => getElapsedMs(activeSession, now) = getElapsedMs(killed.pre, killed.at)

(***************************************************************************)
(* removeWorkout and refreshWorkouts (specification SpecRemove).           *)
(***************************************************************************)
\* deleteWorkout: DELETE FROM workouts WHERE id = ?.
deleteWorkout(templates, workoutId) ==
  [w \in DOMAIN templates \ {workoutId} |-> templates[w]]

\* ON DELETE CASCADE: the history sessions of the deleted template go too.
SessionsWithout(sessions, workoutId) ==
  LET Kept(record) == record.workoutId # workoutId
  IN SelectSeq(sessions, Kept)

\* removeWorkout up to its first await: set({ mutating: true, error: null }).
RemoveWorkoutCall(workoutId) ==
  /\ mutating' = TRUE
  /\ error' = NoError
  /\ tasks' = tasks \cup {Task("remove", "deleting", workoutId, NoSession, EmptyWorkouts, NoUi)}
  /\ calls' = calls + 1
  /\ UNCHANGED <<now, activeSession, workouts, hydrated, bootstrapping, dbVars, result,
                 failures, restVars, loadVars>>

\* removeWorkout called on the store.  The delete button is not disabled
\* while another call is running.
removeWorkout(workoutId) ==
  /\ CanCall
  /\ RemoveWorkoutCall(workoutId)

\* The delete button of a rendered workout card: void removeWorkout(id).
handleRemoveWorkout(workoutId) ==
  /\ workoutId \in DOMAIN workouts.weeks
  /\ calls < MaxCalls
  /\ Cardinality(tasks) < MaxHandlers
  /\ RemoveWorkoutCall(workoutId)

\* await deleteWorkout(workoutId) resolves; removeWorkout reads
\* get().activeSession and goes on to clear its row or to list.
DeleteResolves(t) ==
  /\ t \in tasks /\ t.kind = "remove" /\ t.pc = "deleting"
  /\ dbWorkouts' = deleteWorkout(dbWorkouts, t.arg)
  /\ dbExercises' = deleteWorkout(dbExercises, t.arg)
  /\ dbSessions' = SessionsWithout(dbSessions, t.arg)
  /\ tasks' = (tasks \ {t}) \cup
       {[t EXCEPT !.next = activeSession,
                  !.pc = IF activeSession # NoSession /\ activeSession.workoutId = t.arg
                         THEN "clearing" ELSE "listing"]}
  /\ UNCHANGED <<now, storeVars, stored, result, countVars, restVars, loadVars>>

\* await listWorkouts() of removeWorkout resolves.
RemoveListResolves(t) ==
  /\ t \in tasks /\ t.kind = "remove" /\ t.pc \in {"listing", "cleared"}
  /\ tasks' = (tasks \ {t}) \cup
       {[t EXCEPT !.pc = "listed", !.wk = listWorkouts(dbWorkouts, dbSessions, dbExercises)]}
  /\ UNCHANGED <<now, storeVars, dbVars, result, countVars, restVars, loadVars>>

\* set({ workouts, activeSession: ... ? null : activeSession, error: null })
\* with the activeSession read after the delete, and the finally.
RemoveCommit(t) ==
  /\ t \in tasks /\ t.kind = "remove" /\ t.pc = "listed"
  /\ tasks' = tasks \ {t}
  /\ workouts' = t.wk
  /\ activeSession' = IF t.next # NoSession /\ t.next.workoutId = t.arg
                      THEN NoSession ELSE t.next
  /\ error' = NoError
  /\ mutating' = FALSE
  /\ result' = Settled("remove", "resolved")
  /\ UNCHANGED <<now, hydrated, bootstrapping, dbVars, countVars, restVars, loadVars>>

\* An await of removeWorkout rejects: the catch sets the error and rethrows,
\* the finally clears mutating.
RemoveRejects(t) ==
  /\ t \in tasks /\ t.kind = "remove"
  /\ t.pc \in {"deleting", "clearing", "listing", "cleared"}
  /\ CanFail
  /\ failures' = failures + 1
  /\ tasks' = tasks \ {t}
  /\ error' = "remove failed"
  /\ mutating' = FALSE
  /\ result' = Settled("remove", "rejected")
  /\ UNCHANGED <<now, activeSession, workouts, hydrated, bootstrapping, dbVars, calls,
                 restVars, loadVars>>

\* refreshWorkouts up to its first await.
refreshWorkouts ==
  /\ CanCall
  /\ error' = NoError
  /\ tasks' = tasks \cup {Task("refresh", "listing", "", NoSession, EmptyWorkouts, NoUi)}
  /\ calls' = calls + 1
  /\ UNCHANGED <<now, activeSession, workouts, hydrated, bootstrapping, mutating, dbVars,
                 result, failures, restVars, loadVars>>

\* await listWorkouts() of refreshWorkouts resolves: an active session whose
\* template is gone is cleared first, otherwise the list is published.
RefreshListResolves(t) ==
  /\ t \in tasks /\ t.kind = "refresh" /\ t.pc = "listing"
  /\ LET wk == listWorkouts(dbWorkouts, dbSessions, dbExercises)
     IN IF activeSession # NoSession /\ IsOrphan(activeSession, wk)
        THEN /\ tasks' = (tasks \ {t}) \cup {[t EXCEPT !.pc = "clearing", !.wk = wk]}
             /\ UNCHANGED <<workouts, error, result>>
        ELSE /\ tasks' = tasks \ {t}
             /\ workouts' = wk
             /\ error' = NoError
             /\ result' = Settled("refresh", "resolved")
  /\ UNCHANGED <<now, activeSession, hydrated, bootstrapping, mutating, dbVars, countVars,
                 restVars, loadVars>>

\* set({ workouts, activeSession: null, error: null }) after the clear.
RefreshCommit(t) ==
  /\ t \in tasks /\ t.kind = "refresh" /\ t.pc = "cleared"
  /\ tasks' = tasks \ {t}
  /\ workouts' = t.wk
  /\ activeSession' = NoSession
  /\ error' = NoError
  /\ result' = Settled("refresh", "resolved")
  /\ UNCHANGED <<now, hydrated, bootstrapping, mutating, dbVars, countVars, restVars,
                 loadVars>>

\* An await of refreshWorkouts rejects: the catch sets the error and does
\* not rethrow.
RefreshRejects(t) ==
  /\ t \in tasks /\ t.kind = "refresh" /\ t.pc \in {"listing", "clearing"}
  /\ CanFail
  /\ failures' = failures + 1
  /\ tasks' = tasks \ {t}
  /\ error' = "refresh failed"
  /\ result' = Settled("refresh", "caught")
  /\ UNCHANGED <<now, activeSession, workouts, hydrated, bootstrapping, mutating, dbVars,
                 calls, restVars, loadVars>>

\* The store over the seeded templates, with the session transitions, the
\* ends of a session and the removal of a template.  The clock stands still.
NextRemove ==
  \/ \E w \in WorkoutIds : removeWorkout(w)
  \/ \E t \in tasks : DeleteResolves(t)
  \/ \E t \in tasks : RemoveListResolves(t)
  \/ \E t \in tasks : RemoveCommit(t)
  \/ \E t \in tasks : RemoveRejects(t)
  \/ refreshWorkouts
  \/ \E t \in tasks : RefreshListResolves(t)
  \/ \E t \in tasks : RefreshCommit(t)
  \/ \E t \in tasks : RefreshRejects(t)
  \/ \E w \in WorkoutIds : startWorkoutSession(w)
  \/ \E b \in BodyweightInputs : setActiveWorkoutBodyweight(b)
  \/ pauseActiveWorkoutSession
  \/ resumeActiveWorkoutSession
  \/ \E setId \in SetIdInputs : decrementOrCompleteSessionSet(setId)
  \/ \E setId \in SetIdInputs, reps \in CustomRepsInputs : setSessionSetCustomReps(setId, reps)
  \/ \E t \in tasks : SaveResolves(t)
  \/ \E t \in tasks : SaveRejects(t)
  \/ \E t \in tasks : CommitSession(t)
  \/ finishActiveWorkoutSession
  \/ \E t \in tasks : CreateResolves(t)
  \/ \E t \in tasks : ListResolves(t)
  \/ \E t \in tasks : FinishRejects(t)
  \/ \E t \in tasks : FinishCommit(t)
  \/ discardActiveWorkoutSession
  \/ \E t \in tasks : ClearResolves(t)
  \/ \E t \in tasks : ClearRejects(t)
  \/ \E t \in tasks : DiscardCommit(t)

SpecRemove == InitPlan /\ [][NextRemove]_vars

\* The row of the table holds exactly the in-memory session, or neither
\* exists.
MemoryMatchesStore ==
  IF activeSession = NoSession THEN stored = NoRow
  ELSE stored = SessionToJSON(activeSession)

\* C33 (the claim as stated): whenever no store call is in flight, the
\* in-memory session and the stored row are both absent or equal field for
\* field, whatever calls were made before and however they ended.
C33_MemoryEqualsStoreWhenIdle ==
  tasks = {} => MemoryMatchesStore

\* C36 (the claim as stated): once a removeWorkout or refreshWorkouts call
\* has settled, resolved or rejected, neither the in-memory session nor the
\* stored one names a workout that is no longer in the table.
C36_NoSessionOfDeletedWorkout ==
  (tasks = {} /\ result.kind \in {"remove", "refresh"})
    => /\ activeSession # NoSession => activeSession.workoutId \in DOMAIN dbWorkouts
       /\ StoredSession # NoSession => StoredSession.workoutId \in DOMAIN dbWorkouts

\* C34 (the claim as stated): once the session is absent, in memory or in
\* the table, only a start brings one back: the step that publishes a
\* session where none was is the set(...) of a startWorkoutSession, and the
\* step that writes a row where none was is its save.
C34_EndedSessionStaysAbsent ==
  [][/\ (activeSession = NoSession /\ activeSession' # NoSession)
          => \E t \in tasks : t.kind = "start" /\ CommitSession(t)
     /\ (stored = NoRow /\ stored' # NoRow)
          => \E t \in tasks : t.kind = "start" /\ SaveResolves(t)]_vars

\* C35 (the claim as stated): the session the screen is opened on, the only
\* one there is without a start, gets at most one history record, also when
\* a step of finish fails after the record was written and finish is
\* pressed again.
C35_OneHistoryRecordPerSession ==
  Len(dbSessions) <= 1

\* The clock values not before the pause stamp of session; a missing stamp
\* compares as 0.
ClockSincePause(session) ==
  {t \in ClockValues : t >= (IF session.pauseStartedAt = JNull THEN 0
                             ELSE session.pauseStartedAt.n)}

C38_RestoredImpliesPaused ==
  /\ [](/\ (activeSession # NoSession /\ activeSession.restoredFromAppClose)
             => activeSession.isPaused
        /\ \A t \in tasks :
             (t.kind \in TransitionKinds \cup {"bootstrap"} /\ t.next # NoSession
                /\ t.next.restoredFromAppClose) => t.next.isPaused)
  /\ [][\A u \in tasks' \ tasks :
          /\ (u.kind \in {"pause", "resume", "start"} /\ u.pc = "saving")
               => ~u.next.restoredFromAppClose
          /\ (u.kind \in {"bodyweight", "tap", "custom"} /\ u.pc = "saving")
               => /\ activeSession # NoSession
                  /\ u.next.restoredFromAppClose = activeSession.restoredFromAppClose
          /\ (u.kind = "bootstrap" /\ u.pc = "saving")
               => (u.next.restoredFromAppClose /\ u.next.isPaused)]_vars

\* A session recovered by the cold start, still paused and marked, after a
\* bodyweight transition on it has committed.
C38_Witness ==
  /\ hydrated
  /\ activeSession # NoSession
  /\ activeSession.restoredFromAppClose
  /\ activeSession.isPaused
  /\ activeSession.bodyweightKg = JNum(7)
  /\ result = Settled("bodyweight", "resolved")

\* after is before with nothing changed but the actualReps of the set setId.
OnlyActualRepsChanged(before, after, setId) ==
  /\ before # NoSession /\ after # NoSession
  /\ [after EXCEPT !.sets = before.sets] = before
  /\ Len(after.sets) = Len(before.sets)
  /\ \A i \in 1..Len(before.sets) :
       IF before.sets[i].id # setId THEN after.sets[i] = before.sets[i]
       ELSE [after.sets[i] EXCEPT !.actualReps = 0] = [before.sets[i] EXCEPT !.actualReps = 0]

\* C39: a tap or custom-value transition changes, in memory and in the stored
\* row, nothing but the actual value of the set it targets: every other set
\* and startedAt, totalPausedMs, pauseStartedAt, isPaused,
\* restoredFromAppClose and bodyweightKg stay as they were.
C39_TapAndCustomChangeOnlyTheSet ==
  [][\A t \in tasks :
       t.kind \in {"tap", "custom"}
         => /\ CommitSession(t) => OnlyActualRepsChanged(activeSession, activeSession', t.arg)
            /\ SaveResolves(t) => OnlyActualRepsChanged(StoredSession, StoredSession', t.arg)]_vars

\* The nextSession a tap or custom-value call computes differs from the
\* session it read only in the actualReps of the targeted set; a call with no
\* active session or an unknown set id returns with the session, the stored
\* row and the calls in flight as they were.
TapAndCustomFrameOfNextSession ==
  [][/\ \A u \in tasks' \ tasks :
          (u.kind \in {"tap", "custom"} /\ u.pc = "saving")
            => OnlyActualRepsChanged(activeSession, u.next, u.arg)
     /\ \A setId \in SetIdInputs, reps \in CustomRepsInputs :
          ((decrementOrCompleteSessionSet(setId) \/ setSessionSetCustomReps(setId, reps))
             /\ (activeSession = NoSession \/ ~HasSet(activeSession, setId)))
            => /\ activeSession' = activeSession
               /\ stored' = stored
               /\ tasks' = tasks]_vars

(***************************************************************************)
(* The end of the session seen from the workouts screen: finish, discard   *)
(* and the removal of a template, with the taps and rest notifications     *)
(* still in flight.  The runs followed here are those in which no call     *)
(* rejects, except the insert of a history record for a template that has  *)
(* been deleted meanwhile; every pending promise settles and every pending *)
(* effect runs.                                                            *)
(***************************************************************************)
\* createWorkoutSession for a template deleted meanwhile: the insert fails.
CreateRejectsDeleted(t) ==
  /\ t.pc = "creating"
  /\ t.next.workoutId \notin DOMAIN dbWorkouts
  /\ FinishRejects(t)

SettleEnd ==
  \/ \E t \in tasks : SaveResolves(t)
  \/ \E t \in tasks : CommitSession(t)
  \/ \E t \in tasks : CancelPreviousResolves(t)
  \/ \E t \in tasks : ScheduleResolves(t)
  \/ \E t \in tasks : ScheduleReturnsNull(t)
  \/ \E t \in tasks : CancelStaleResolves(t)
  \/ \E t \in tasks : CancelClearedResolves(t)
  \/ SessionEndedEffect
  \/ \E t \in tasks : CancelEndedResolves(t)
  \/ \E t \in tasks : CreateResolves(t)
  \/ \E t \in tasks : CreateRejectsDeleted(t)
  \/ \E t \in tasks : ListResolves(t)
  \/ \E t \in tasks : FinishCommit(t)
  \/ \E t \in tasks : ClearResolves(t)
  \/ \E t \in tasks : DiscardCommit(t)
  \/ \E t \in tasks : DeleteResolves(t)
  \/ \E t \in tasks : RemoveListResolves(t)
  \/ \E t \in tasks : RemoveCommit(t)

NextEnd ==
  \/ \E setEntry \in RenderedSets : handleSetPress(setEntry)
  \/ handleFinishSession
  \/ handleDiscardSession
  \/ \E w \in WorkoutIds : handleRemoveWorkout(w)
  \/ SettleEnd

SpecEnd == InitRest /\ [][NextEnd]_vars /\ WF_vars(SettleEnd)

EndedForGoodLeavesNoRest ==
  <>[](activeSession = NoSession) => <>[](activeRestTimer = NoTimer /\ live = {})

====
